---- MODULE Spec2Model ----
(***************************************************************************)
(* Governance record validation of the documentation framework:            *)
(*   - governance-linter.js (two generations of the script),               *)
(*   - validate-changes.js,                                                *)
(* modelled as command runs over front-matter records.                     *)
(*                                                                         *)
(* JavaScript values are encoded as strings: Undefined is `undefined`      *)
(* (an absent key), NonString is a truthy value that is not a string (a    *)
(* number such as 123), "true"/"false" are the booleans.  An error message *)
(* is a record [msg, args]: msg is the constant text, args the             *)
(* interpolated values.                                                    *)
(***************************************************************************)
EXTENDS Integers, Sequences, FiniteSets, TLC

VARIABLES
  pc,         \* "idle": no process running; "done": a command has exited
  cmd,        \* the command that ran last
  target,     \* the record id given on the command line
  roadFm,     \* front matter of the roadmap file the command read
  changeFm,   \* front matter source of the change file the command read
  roadOnDisk, \* status declared by roads/ROAD-001.md, NoFile without the file
  roadFiles,  \* front matter of the files in roads/, in glob order (batch runs)
  runs,       \* how many times the command has run on the unchanged files
  previous,   \* errors, warnings and exit code of the run before the last one
  adrFile,    \* the file in adr/: its name and front matter
  globNoCase, \* whether glob on this platform matches file names ignoring case
  feature,    \* the feature file under stack-tests/features
  strict,     \* whether validate-bdd-tags was given --strict
  prevState,  \* previousState handed to validateStateMachine
  returned,   \* {errors, warnings} returned by the validator called last
  results,    \* the linter's accumulator: errors, warnings, passed, total
  counts,     \* {total, passed, failed} kept by the scripts that only count
  exitCode,   \* process exit code, NoExit while idle
  status,     \* status of the tracked roadmap record (lifecycle)
  history,    \* statuses the tracked record has been in, in order
  args,       \* command-line arguments main was started with
  ran,        \* the validators main called, in call order
  scriptExists, \* validate-docs: which script files exist in scripts/
  scriptExit, \* validate-docs: the exit code each step's process ends with
  runChecks,  \* validate-docs: the results array of main
  parser,     \* parseFrontmatter: its stack, the line at lineIdx, the next one
  bddUpdate   \* update-bdd-results: the report, the CHANGE files, what was written

vars ==
  <<pc, cmd, target, roadFm, changeFm, roadOnDisk, roadFiles, runs, previous,
    adrFile, globNoCase, feature, strict, prevState, returned, results,
    counts, exitCode, status, history, args, ran, scriptExists, scriptExit,
    runChecks, parser, bddUpdate>>

changeVars == <<changeFm, roadOnDisk>>

batchVars == <<roadFiles, runs, previous>>

adrVars == <<adrFile, globNoCase>>

bddVars == <<feature, strict>>

mainVars == <<args, ran>>

runnerVars == <<scriptExists, scriptExit, runChecks>>

\* The variables of main's dispatch and of the other scripts.
scriptVars == <<mainVars, runnerVars, parser, bddUpdate>>

Undefined == "<undefined>"
NoFile == "<no file>"
NonString == "<non-string>"
NoExit == "<running>"

Err(m, a) == [msg |-> m, args |-> a]

(***************************************************************************)
(* Valid values                                                            *)
(***************************************************************************)
VALID_ROAD_STATUSES ==
  <<"proposed", "adr_validated", "bdd_pending", "bdd_complete",
    "implementing", "nfr_validating", "nfr_blocked", "complete">>

Range(s) == { s[i] : i \in DOMAIN s }

Includes(list, v) == v \in Range(list)

\* A status outside the enumeration, as a file may declare it.
InvalidStatus == "archived"

StatusValues == Range(VALID_ROAD_STATUSES) \cup {InvalidStatus, Undefined}

\* The mutant drops the nfr_validating -> complete edge's guard role: it lets
\* implementing jump to complete.
STATE_MACHINE_TRANSITIONS_SkipNfr(prev) ==
  CASE prev = "proposed"       -> <<"adr_validated">>
    [] prev = "adr_validated"  -> <<"bdd_pending">>
    [] prev = "bdd_pending"    -> <<"bdd_complete">>
    [] prev = "bdd_complete"   -> <<"implementing">>
    [] prev = "implementing"   -> <<"nfr_validating", "complete">>
    [] prev = "nfr_validating" -> <<"complete">>
    [] prev = "complete"       -> <<>>
    [] OTHER                   -> <<>>

\* STATE_MACHINE_TRANSITIONS[previousState] || []
STATE_MACHINE_TRANSITIONS(prev) ==
  CASE prev = "proposed"       -> <<"adr_validated">>
    [] prev = "adr_validated"  -> <<"bdd_pending">>
    [] prev = "bdd_pending"    -> <<"bdd_complete">>
    [] prev = "bdd_complete"   -> <<"implementing">>
    [] prev = "implementing"   -> <<"nfr_validating">>
    [] prev = "nfr_validating" -> <<"complete">>
    [] prev = "complete"       -> <<>>
    [] OTHER                   -> <<>>

(***************************************************************************)
(* Roadmap front matter                                                    *)
(***************************************************************************)
NfrIds == <<"NFR-PERF-001", "NFR-SEC-001">>

NoResults == [n \in Range(NfrIds) |-> "none"]

\* A well-formed roadmap record in status proposed.
BaseRoad ==
  [ kind |-> "record",
    id |-> "ROAD-001", title |-> "Escrow", status |-> "proposed",
    phase |-> "1", priority |-> "high",
    created |-> "2026-01-05", started |-> Undefined, completed |-> Undefined,
    depends_on |-> "array", blocked_by |-> Undefined, blocks |-> Undefined,
    placeholders |-> FALSE,
    gov |-> TRUE,
    adrs |-> [present |-> TRUE, validated |-> "true", validated_by |-> TRUE],
    bdd |-> [present |-> TRUE, id |-> TRUE, status |-> "approved"],
    nfrs |-> [present |-> TRUE,
              applicable |-> [isArray |-> TRUE, items |-> <<"NFR-PERF-001">>],
              status |-> "pass",
              results |-> [present |-> TRUE,
                           of |-> [NoResults EXCEPT !["NFR-PERF-001"] = "pass"]]],
    capabilities |-> [isArray |-> TRUE, items |-> <<"CAP-001">>] ]

AbsentAdrs == [present |-> FALSE, validated |-> Undefined, validated_by |-> FALSE]
AbsentBdd == [present |-> FALSE, id |-> FALSE, status |-> Undefined]
AbsentNfrs ==
  [present |-> FALSE, applicable |-> [isArray |-> FALSE, items |-> <<>>],
   status |-> Undefined, results |-> [present |-> FALSE, of |-> NoResults]]
NoCapabilities == [isArray |-> FALSE, items |-> <<>>]

\* frontMatter.governance?.adrs?.validated
AdrsValidated(fm) ==
  IF fm.gov /\ fm.adrs.present THEN fm.adrs.validated ELSE Undefined

\* frontMatter.governance?.bdd?.status
BddStatus(fm) ==
  IF fm.gov /\ fm.bdd.present THEN fm.bdd.status ELSE Undefined

\* frontMatter.governance?.nfrs?.status
NfrsStatus(fm) ==
  IF fm.gov /\ fm.nfrs.present THEN fm.nfrs.status ELSE Undefined

\* frontMatter.governance?.nfrs?.applicable || []
ApplicableNfrs(fm) ==
  IF fm.gov /\ fm.nfrs.present /\ fm.nfrs.applicable.isArray
  THEN fm.nfrs.applicable.items ELSE <<>>

\* (frontMatter.governance?.nfrs?.results || {})[nfrId]?.status
NfrResult(fm, nfrId) ==
  IF fm.gov /\ fm.nfrs.present /\ fm.nfrs.results.present
  THEN fm.nfrs.results.of[nfrId] ELSE "none"

Truthy(v) == v \notin {Undefined, "false", ""}

(***************************************************************************)
(* validateStateMachine(filePath, frontMatter, previousState)              *)
(***************************************************************************)
TransitionErrors(fm, previousState) ==
  IF fm.status # previousState
     /\ ~Includes(STATE_MACHINE_TRANSITIONS(previousState), fm.status)
  THEN <<Err("Invalid state transition", <<previousState, fm.status>>)>>
  ELSE <<>>

AdrGateStatuses ==
  {"bdd_pending", "bdd_complete", "implementing", "nfr_validating", "complete"}

BddGateStatuses == {"implementing", "nfr_validating", "complete"}

AdrGateErrors(fm) ==
  IF fm.status \in AdrGateStatuses /\ ~Truthy(AdrsValidated(fm))
  THEN <<Err("ADR validation required before", <<fm.status>>)>>
  ELSE <<>>

BddGateErrors(fm) ==
  IF fm.status \in BddGateStatuses /\ BddStatus(fm) # "approved"
  THEN <<Err("BDD approval required before implementing", <<>>)>>
  ELSE <<>>

NfrGateErrors(fm) ==
  IF fm.status = "complete"
  THEN (IF NfrsStatus(fm) # "pass"
        THEN <<Err("All NFRs must pass before complete", <<>>)>> ELSE <<>>)
       \o LET failing == SelectSeq(ApplicableNfrs(fm),
                                   LAMBDA n : NfrResult(fm, n) # "pass")
          IN [i \in 1..Len(failing) |->
                Err("NFR must pass before complete", <<failing[i]>>)]
  ELSE <<>>

validateStateMachine(fm, previousState) ==
  IF ~Truthy(previousState)
  THEN <<>>
  ELSE TransitionErrors(fm, previousState) \o AdrGateErrors(fm)
       \o BddGateErrors(fm) \o NfrGateErrors(fm)

(***************************************************************************)
(* Inputs of the state machine checker                                     *)
(***************************************************************************)
SMAdrs ==
  {AbsentAdrs} \cup
  { [present |-> TRUE, validated |-> v, validated_by |-> (v = "true")] :
      v \in {"true", "false", Undefined} }

SMBdd ==
  {AbsentBdd} \cup
  { [present |-> TRUE, id |-> TRUE, status |-> s] :
      s \in {Undefined, "draft", "approved"} }

SMResults ==
  { [present |-> FALSE, of |-> NoResults],
    [present |-> TRUE, of |-> NoResults],
    [present |-> TRUE, of |-> [NoResults EXCEPT !["NFR-PERF-001"] = "pass"]],
    [present |-> TRUE, of |-> [n \in Range(NfrIds) |-> "pass"]],
    [present |-> TRUE,
     of |-> [NoResults EXCEPT !["NFR-PERF-001"] = "pass", !["NFR-SEC-001"] = "fail"]] }

SMApplicable ==
  { [isArray |-> FALSE, items |-> <<>>],
    [isArray |-> TRUE, items |-> <<>>],
    [isArray |-> TRUE, items |-> <<"NFR-PERF-001">>],
    [isArray |-> TRUE, items |-> NfrIds] }

SMNfrs ==
  {AbsentNfrs} \cup
  { [present |-> TRUE, applicable |-> a, status |-> s, results |-> r] :
      a \in SMApplicable, s \in {Undefined, "pending", "pass"}, r \in SMResults }

SMRecords ==
  { [BaseRoad EXCEPT !.status = s, !.gov = FALSE, !.adrs = AbsentAdrs,
       !.bdd = AbsentBdd, !.nfrs = AbsentNfrs, !.capabilities = NoCapabilities] :
      s \in StatusValues }
  \cup
  { [BaseRoad EXCEPT !.status = s, !.adrs = a, !.bdd = b, !.nfrs = n] :
      s \in StatusValues, a \in SMAdrs, b \in SMBdd, n \in SMNfrs }

PreviousStates == StatusValues

(***************************************************************************)
(* Change files: docs/changes/CHANGE-001.md as it is written               *)
(***************************************************************************)
\* One entry of the signatures list, and an entry (or a character of a string
\* read where the list was expected) that has none of the four keys.
Signature(agent, st) ==
  [agent |-> agent, role |-> "reviewer", status |-> st,
   timestamp |-> "2026-02-01T10:00:00Z"]

NoFields ==
  [agent |-> Undefined, role |-> Undefined, status |-> Undefined,
   timestamp |-> Undefined]

\* How the file writes the signatures key:
\*   "absent"          no signatures key
\*   "empty"           signatures: []
\*   "emptyCommented"  signatures: []  # Populated during governance workflow
\*   "bare"            signatures:         (no value, no items below it)
\*   "block"           signatures: followed by indented "- agent: ..." items
SignaturesSource(form, items) == [form |-> form, items |-> items]

Check(st) == [present |-> TRUE, status |-> st]

NoCheck == [present |-> FALSE, status |-> Undefined]

FullCompliance ==
  [present |-> TRUE,
   adr_check |-> Check("pass"),
   bdd_check |-> [present |-> TRUE, status |-> "pass", scenarios |-> "7",
                  passed |-> "7"],
   nfr_checks |-> [present |-> TRUE, performance |-> Check("pass"),
                   security |-> Check("pass"), accessibility |-> Check("na")]]

NoCompliance ==
  [present |-> FALSE,
   adr_check |-> NoCheck,
   bdd_check |-> [present |-> FALSE, status |-> Undefined,
                  scenarios |-> Undefined, passed |-> Undefined],
   nfr_checks |-> [present |-> FALSE, performance |-> NoCheck,
                   security |-> NoCheck, accessibility |-> NoCheck]]

ArrayOf(items) == [kind |-> "array", items |-> items]

BaseChange ==
  [kind |-> "record", id |-> "CHANGE-001", road_id |-> "ROAD-001",
   title |-> "Escrow release", date |-> "2026-02-01", version |-> "1.2.0",
   status |-> "draft", categories |-> ArrayOf(<<"Added">>),
   compliance |-> FullCompliance,
   signatures |-> SignaturesSource("absent", <<>>)]

(***************************************************************************)
(* ADR files and feature files as they are written                         *)
(***************************************************************************)
BaseAdr ==
  [name |-> "ADR-001.md", kind |-> "record", id |-> "ADR-001",
   title |-> "Use an event log", status |-> "accepted",
   category |-> "architecture", created |-> "2026-01-05"]

Scenario(tags, name, given, when, then) ==
  [tags |-> tags, name |-> name, hasGiven |-> given, hasWhen |-> when,
   hasThen |-> then]

\* tagLines: the lines of tags above the Feature: line, each a list of tags;
\* every scenario carries one line of tags (possibly empty).
BaseFeature ==
  [kind |-> "file",
   tagLines |-> << <<"@CAP-001">> >>,
   featureName |-> "Escrow release",
   scenarios |-> <<Scenario(<<>>, "Release on delivery", TRUE, TRUE, TRUE)>>]

NoPrevious == [errors |-> <<>>, warnings |-> <<>>, exitCode |-> "<running>"]

EmptyResults == [errors |-> <<>>, warnings |-> <<>>, passed |-> <<>>, total |-> 0]

NothingReturned == [errors |-> <<>>, warnings |-> <<>>, threw |-> FALSE]

NoCounts == [total |-> 0, passed |-> 0, failed |-> 0]

\* The scripts validate-docs.js starts, all present and all passing.
ScriptFiles == {"governance-linter.js", "validate-changes.js", "validate-bdd-tags.js"}

MaxSteps == 5

AllScriptsExist == [f \in ScriptFiles |-> TRUE]

AllStepsPass == [i \in 1..MaxSteps |-> "0"]

\* The frame parseFrontmatter starts with: the record itself.
RootFrame == [type |-> "object", indent |-> -1]

EndOfBlock == [kind |-> "end", indent |-> 0]

\* parseFrontmatter before its loop starts.
ParserAtStart ==
  [stack |-> <<RootFrame>>, line |-> EndOfBlock, next |-> EndOfBlock,
   lineIdx |-> 0, before |-> <<RootFrame>>, processed |-> EndOfBlock,
   threw |-> FALSE]

\* update-bdd-results before it ran: no report read, no CHANGE file written.
NoBddUpdate ==
  [report |-> <<>>, targetRoadId |-> "<null>", changeRoads |-> {},
   resultsByRoad |-> <<>>, written |-> <<>>]

Init ==
  /\ pc = "idle"
  /\ cmd = "none"
  /\ target = Undefined
  /\ roadFm = BaseRoad
  /\ changeFm = BaseChange
  /\ roadOnDisk = NoFile
  /\ roadFiles = <<>>
  /\ runs = 0
  /\ previous = NoPrevious
  /\ adrFile = BaseAdr
  /\ globNoCase = FALSE
  /\ feature = BaseFeature
  /\ strict = FALSE
  /\ args = {}
  /\ ran = <<>>
  /\ scriptExists = AllScriptsExist
  /\ scriptExit = AllStepsPass
  /\ runChecks = <<>>
  /\ parser = ParserAtStart
  /\ bddUpdate = NoBddUpdate
  /\ prevState = Undefined
  /\ returned = NothingReturned
  /\ results = EmptyResults
  /\ counts = NoCounts
  /\ exitCode = NoExit
  /\ status = "proposed"
  /\ history = <<"proposed">>

\* A new process starts: the module-level accumulators are freshly initialised.
NewRun ==
  /\ pc = "done"
  /\ pc' = "idle"
  /\ cmd' = "none"
  /\ target' = Undefined
  /\ roadFm' = BaseRoad
  /\ changeFm' = BaseChange
  /\ roadOnDisk' = NoFile
  /\ roadFiles' = <<>>
  /\ runs' = 0
  /\ previous' = NoPrevious
  /\ adrFile' = BaseAdr
  /\ globNoCase' = FALSE
  /\ feature' = BaseFeature
  /\ strict' = FALSE
  /\ args' = {}
  /\ ran' = <<>>
  /\ scriptExists' = AllScriptsExist
  /\ scriptExit' = AllStepsPass
  /\ runChecks' = <<>>
  /\ parser' = ParserAtStart
  /\ bddUpdate' = NoBddUpdate
  /\ prevState' = Undefined
  /\ returned' = NothingReturned
  /\ results' = EmptyResults
  /\ counts' = NoCounts
  /\ exitCode' = NoExit
  /\ UNCHANGED <<status, history>>

\* One call validateStateMachine(filePath, frontMatter, previousState).
CheckStateMachine ==
  /\ pc = "idle"
  /\ \E fm \in SMRecords, p \in PreviousStates :
       /\ roadFm' = fm
       /\ prevState' = p
       /\ returned' = [NothingReturned EXCEPT !.errors = validateStateMachine(fm, p)]
  /\ cmd' = "validateStateMachine"
  /\ pc' = "done"
  /\ UNCHANGED <<target, results, counts, exitCode, status, history, scriptVars, changeVars, batchVars, adrVars, bddVars>>

NextSM == CheckStateMachine \/ NewRun

SpecSM == Init /\ [][NextSM]_vars

HasError(errs, m) == \E i \in DOMAIN errs : errs[i].msg = m

(***************************************************************************)
(* Lifecycle of one roadmap record: its front matter is edited and each    *)
(* edit is checked by validateStateMachine against the status it had.      *)
(***************************************************************************)
MaxHistory == 9

LifeGovernance ==
  { [adrs |-> BaseRoad.adrs, bdd |-> BaseRoad.bdd, nfrs |-> BaseRoad.nfrs],
    [adrs |-> [BaseRoad.adrs EXCEPT !.validated = "false"],
     bdd |-> BaseRoad.bdd, nfrs |-> BaseRoad.nfrs],
    [adrs |-> BaseRoad.adrs, bdd |-> [BaseRoad.bdd EXCEPT !.status = "draft"],
     nfrs |-> BaseRoad.nfrs],
    [adrs |-> BaseRoad.adrs, bdd |-> BaseRoad.bdd,
     nfrs |-> [BaseRoad.nfrs EXCEPT !.status = "pending"]] }

LifeRecords ==
  { [BaseRoad EXCEPT !.status = s, !.adrs = g.adrs, !.bdd = g.bdd, !.nfrs = g.nfrs] :
      s \in StatusValues, g \in LifeGovernance }

\* The change is accepted when the checker reports no invalid transition.
ChangeStatus ==
  /\ Len(history) < MaxHistory
  /\ \E fm \in LifeRecords :
       LET errs == validateStateMachine(fm, status) IN
       /\ roadFm' = fm
       /\ prevState' = status
       /\ returned' = [NothingReturned EXCEPT !.errors = errs]
       /\ IF HasError(errs, "Invalid state transition")
          THEN UNCHANGED <<status, history>>
          ELSE /\ status' = fm.status
               /\ history' = IF fm.status = status THEN history
                             ELSE Append(history, fm.status)
  /\ cmd' = "validateStateMachine"
  /\ UNCHANGED <<pc, target, results, counts, exitCode, scriptVars, changeVars, batchVars, adrVars, bddVars>>

NextLife == ChangeStatus

SpecLife == Init /\ [][NextLife]_vars

(***************************************************************************)
(* Properties of the state machine checker                                 *)
(***************************************************************************)
CheckedWithPrevious ==
  pc = "done" /\ cmd = "validateStateMachine" /\ Truthy(prevState)

\* The transition table of the workflow specification.
DocumentedTransitions ==
  { <<"proposed", "adr_validated">>, <<"adr_validated", "bdd_pending">>,
    <<"bdd_pending", "bdd_complete">>, <<"bdd_complete", "implementing">>,
    <<"implementing", "nfr_validating">>, <<"nfr_validating", "complete">>,
    <<"nfr_validating", "nfr_blocked">>, <<"nfr_blocked", "nfr_validating">> }

\* C1: with a known previous status p and a declared status s # p, the checker
\* reports 'Invalid state transition' exactly when (p, s) is not one of the
\* eight documented transitions.
C1_TransitionTable ==
  (CheckedWithPrevious /\ roadFm.status # prevState) =>
    (HasError(returned.errors, "Invalid state transition")
       <=> <<prevState, roadFm.status>> \notin DocumentedTransitions)

RECURSIVE IsSubseq(_, _)
IsSubseq(s, t) ==
  IF s = <<>> THEN TRUE
  ELSE IF t = <<>> THEN FALSE
  ELSE IF Head(s) = Head(t) THEN IsSubseq(Tail(s), Tail(t))
  ELSE IsSubseq(s, Tail(t))

PathToComplete ==
  <<"proposed", "adr_validated", "bdd_pending", "bdd_complete", "implementing",
    "nfr_validating", "complete">>

\* C2: starting at proposed and taking only accepted changes, a record in
\* complete has been in adr_validated, bdd_pending, bdd_complete, implementing
\* and nfr_validating, in that order, and no accepted change leaves complete.
C2_OrderedProgress ==
  /\ [](status = "complete" => IsSubseq(PathToComplete, history))
  /\ [][status = "complete" => status' = "complete"]_vars

\* A record that reached complete, on which a change to another status was
\* then attempted.
C2_Witness ==
  /\ status = "complete"
  /\ prevState = "complete"
  /\ roadFm.status = "implementing"
  /\ Len(history) = Len(PathToComplete)

AtOrBeyondBddPending ==
  {"bdd_pending", "bdd_complete", "implementing", "nfr_validating",
   "nfr_blocked", "complete"}

AtOrBeyondImplementing ==
  {"implementing", "nfr_validating", "nfr_blocked", "complete"}

\* C6: when gates are checked, a status at or beyond bdd_pending without
\* governance.adrs.validated = true gets the ADR validation error.
C6_AdrGate ==
  (CheckedWithPrevious /\ roadFm.status \in AtOrBeyondBddPending
     /\ AdrsValidated(roadFm) # "true")
    => HasError(returned.errors, "ADR validation required before")

\* C7: when gates are checked, a status at or beyond implementing without
\* governance.bdd.status = "approved" gets the BDD approval error.
C7_BddGate ==
  (CheckedWithPrevious /\ roadFm.status \in AtOrBeyondImplementing
     /\ BddStatus(roadFm) # "approved")
    => HasError(returned.errors, "BDD approval required before implementing")

(***************************************************************************)
(* validateRoadFrontMatter(filePath, frontMatter)                          *)
(***************************************************************************)
\* /^ROAD-\d+$/ over the ids the model uses
RoadIdMatches(id) == id \in {"ROAD-001", "ROAD-002"}

\* /^CAP-\d+$/ over the capability references the model uses
CapIdMatches(cap) == cap \in {"CAP-001", "CAP-999"}

\* The ids declared by the files under capabilities/.
CapabilityFiles == {"CAP-001"}

\* findCapabilityFile(capId) returns a file
findCapabilityFile(capId) == capId \in CapabilityFiles

Missing(value, field) ==
  IF ~Truthy(value) THEN <<Err("Missing required field", <<field>>)>> ELSE <<>>

RoadRequiredErrors(fm) ==
  Missing(fm.id, "id") \o Missing(fm.title, "title") \o Missing(fm.status, "status")
  \o (IF ~fm.gov THEN <<Err("Missing required field", <<"governance">>)>> ELSE <<>>)

RoadIdErrors(fm) ==
  IF Truthy(fm.id) /\ ~RoadIdMatches(fm.id)
  THEN <<Err("Invalid id format", <<fm.id>>)>> ELSE <<>>

RoadStatusErrors(fm) ==
  IF Truthy(fm.status) /\ ~Includes(VALID_ROAD_STATUSES, fm.status)
  THEN <<Err("Invalid status", <<fm.status>>)>> ELSE <<>>

AdrsSectionErrors(fm) ==
  IF fm.adrs.present THEN <<>> ELSE <<Err("Missing governance.adrs section", <<>>)>>

AdrsSectionWarnings(fm) ==
  IF fm.adrs.present
  THEN (IF fm.adrs.validated = Undefined
        THEN <<Err("governance.adrs.validated not specified", <<>>)>> ELSE <<>>)
       \o (IF Truthy(fm.adrs.validated) /\ ~fm.adrs.validated_by
           THEN <<Err("governance.adrs.validated is true but validated_by is missing", <<>>)>>
           ELSE <<>>)
  ELSE <<>>

BddSectionErrors(fm) ==
  IF fm.bdd.present
  THEN IF fm.status # "proposed" /\ fm.status # "adr_validated"
       THEN (IF ~fm.bdd.id
             THEN <<Err("BDD id required when status is bdd_pending or later", <<>>)>>
             ELSE <<>>)
            \o (IF fm.status # "bdd_pending" /\ ~Truthy(fm.bdd.status)
                THEN <<Err("BDD status required when status is bdd_complete or later", <<>>)>>
                ELSE <<>>)
       ELSE <<>>
  ELSE IF fm.status # "proposed" /\ fm.status # "adr_validated"
       THEN <<Err("Missing governance.bdd section required for this status", <<>>)>>
       ELSE <<>>

NfrsSectionErrors(fm) ==
  IF fm.nfrs.present
  THEN (IF ~fm.nfrs.applicable.isArray
        THEN <<Err("governance.nfrs.applicable must be an array", <<>>)>> ELSE <<>>)
       \o (IF fm.status = "nfr_validating" \/ fm.status = "complete"
           THEN (IF ~fm.nfrs.results.present
                 THEN <<Err("governance.nfrs.results required when status is nfr_validating or complete", <<>>)>>
                 ELSE <<>>)
                \o (IF fm.status = "complete" /\ fm.nfrs.status # "pass"
                    THEN <<Err("All NFRs must pass before status can be complete", <<>>)>>
                    ELSE <<>>)
           ELSE <<>>)
  ELSE IF fm.status = "nfr_validating" \/ fm.status = "complete"
       THEN <<Err("Missing governance.nfrs section required for this status", <<>>)>>
       ELSE <<>>

hasCapabilities(fm) == fm.capabilities.isArray /\ Len(fm.capabilities.items) > 0

hasApplicableNFRs(fm) ==
  fm.nfrs.present /\ fm.nfrs.applicable.isArray /\ Len(fm.nfrs.applicable.items) > 0

hasFailingNFRs(fm) == fm.nfrs.present /\ fm.nfrs.status = "fail"

CapabilityOrNfrErrors(fm) ==
  IF ~hasCapabilities(fm) /\ ~hasApplicableNFRs(fm) /\ ~hasFailingNFRs(fm)
  THEN <<Err("ROAD item must have at least one capability OR non-compliant NFR", <<>>)>>
  ELSE <<>>

RECURSIVE CapabilityRefErrors(_)
CapabilityRefErrors(caps) ==
  IF caps = <<>> THEN <<>>
  ELSE (IF ~CapIdMatches(Head(caps))
        THEN <<Err("Invalid capability reference", <<Head(caps)>>)>> ELSE <<>>)
       \o (IF ~findCapabilityFile(Head(caps))
           THEN <<Err("Referenced capability file not found", <<Head(caps)>>)>>
           ELSE <<>>)
       \o CapabilityRefErrors(Tail(caps))

\* frontMatter.id.match and cap.match raise a TypeError on a value that is
\* not a string.
RoadFrontMatterThrows(fm) ==
  \/ fm.id = NonString
  \/ fm.gov /\ hasCapabilities(fm) /\ NonString \in Range(fm.capabilities.items)

\* The mutant validates the status only when it is absent.
validateRoadFrontMatter_NoEnumCheck(fm) ==
  IF RoadFrontMatterThrows(fm)
  THEN [errors |-> <<>>, warnings |-> <<>>, threw |-> TRUE]
  ELSE [errors |->
          RoadRequiredErrors(fm) \o RoadIdErrors(fm)
          \o (IF fm.gov
              THEN AdrsSectionErrors(fm) \o BddSectionErrors(fm)
                   \o NfrsSectionErrors(fm) \o CapabilityOrNfrErrors(fm)
                   \o (IF hasCapabilities(fm)
                       THEN CapabilityRefErrors(fm.capabilities.items) ELSE <<>>)
              ELSE <<>>),
        warnings |-> IF fm.gov THEN AdrsSectionWarnings(fm) ELSE <<>>,
        threw |-> FALSE]

validateRoadFrontMatter(fm) ==
  IF RoadFrontMatterThrows(fm)
  THEN [errors |-> <<>>, warnings |-> <<>>, threw |-> TRUE]
  ELSE [errors |->
          RoadRequiredErrors(fm) \o RoadIdErrors(fm) \o RoadStatusErrors(fm)
          \o (IF fm.gov
              THEN AdrsSectionErrors(fm) \o BddSectionErrors(fm)
                   \o NfrsSectionErrors(fm) \o CapabilityOrNfrErrors(fm)
                   \o (IF hasCapabilities(fm)
                       THEN CapabilityRefErrors(fm.capabilities.items) ELSE <<>>)
              ELSE <<>>),
        warnings |-> IF fm.gov THEN AdrsSectionWarnings(fm) ELSE <<>>,
        threw |-> FALSE]

(***************************************************************************)
(* lintRoadItem(roadId) and main, over a docs tree whose only roadmap file *)
(* has front matter fm                                                     *)
(***************************************************************************)
Entry(id, e) == [id |-> id, msg |-> e.msg, args |-> e.args]

Entries(id, errs) == [i \in 1..Len(errs) |-> Entry(id, errs[i])]

\* findRoadFile(roadId) returns the file: extractFrontMatter gave a record
\* whose id is roadId
findRoadFile(roadId, fm) == fm.kind = "record" /\ fm.id = roadId

\* The accumulator after lintRoadItem(roadId), and whether it raised.
lintRoadItem(roadId, fm) ==
  IF ~findRoadFile(roadId, fm)
  THEN [results |-> [EmptyResults EXCEPT
                       !.errors = <<Entry(roadId, Err("ROAD item not found", <<roadId>>))>>],
        validation |-> NothingReturned, threw |-> FALSE]
  ELSE IF fm.kind = "none"
  THEN [results |-> [EmptyResults EXCEPT
                       !.errors = <<Entry(roadId, Err("No front matter found", <<>>))>>],
        validation |-> NothingReturned, threw |-> FALSE]
  ELSE IF fm.kind = "yamlerror"
  THEN [results |-> [EmptyResults EXCEPT
                       !.errors = <<Entry(roadId, Err("Invalid YAML", <<>>))>>],
        validation |-> NothingReturned, threw |-> FALSE]
  ELSE LET fmValidation == validateRoadFrontMatter(fm)
           stateValidation == validateStateMachine(fm, Undefined)
       IN IF fmValidation.threw
          THEN [results |-> [EmptyResults EXCEPT !.total = 1],
                validation |-> fmValidation, threw |-> TRUE]
          ELSE [results |->
                  [errors |-> Entries(roadId, fmValidation.errors)
                                \o Entries(roadId, stateValidation),
                   warnings |-> Entries(roadId, fmValidation.warnings),
                   passed |-> IF fmValidation.errors = <<>> /\ stateValidation = <<>>
                              THEN <<Entry(roadId, Err("All validations passed", <<>>))>>
                              ELSE <<>>,
                   total |-> 1],
                validation |-> fmValidation, threw |-> FALSE]

\* process.exit at the end of main
ExitCodeOf(res, threw) ==
  IF threw THEN "3" ELSE IF Len(res.errors) > 0 THEN "1" ELSE "0"

(***************************************************************************)
(* Roadmap files handed to the linter                                      *)
(***************************************************************************)
LintAdrs ==
  { AbsentAdrs,
    [present |-> TRUE, validated |-> "true", validated_by |-> TRUE],
    [present |-> TRUE, validated |-> "true", validated_by |-> FALSE],
    [present |-> TRUE, validated |-> "false", validated_by |-> FALSE],
    [present |-> TRUE, validated |-> Undefined, validated_by |-> FALSE] }

LintBdd ==
  { AbsentBdd,
    [present |-> TRUE, id |-> TRUE, status |-> "approved"],
    [present |-> TRUE, id |-> TRUE, status |-> "draft"],
    [present |-> TRUE, id |-> TRUE, status |-> Undefined],
    [present |-> TRUE, id |-> FALSE, status |-> "approved"] }

LintApplicable ==
  { [isArray |-> FALSE, items |-> <<>>],
    [isArray |-> TRUE, items |-> <<>>],
    [isArray |-> TRUE, items |-> NfrIds] }

LintResults ==
  { [present |-> FALSE, of |-> NoResults],
    [present |-> TRUE, of |-> [NoResults EXCEPT !["NFR-PERF-001"] = "pass"]],
    [present |-> TRUE, of |-> [n \in Range(NfrIds) |-> "pass"]],
    [present |-> TRUE,
     of |-> [NoResults EXCEPT !["NFR-PERF-001"] = "pass", !["NFR-SEC-001"] = "fail"]] }

LintNfrs ==
  {AbsentNfrs} \cup
  { [present |-> TRUE, applicable |-> a, status |-> s, results |-> r] :
      a \in LintApplicable, s \in {Undefined, "pending", "pass", "fail"},
      r \in LintResults }

LintCapabilities ==
  { NoCapabilities,
    [isArray |-> TRUE, items |-> <<"CAP-001">>],
    [isArray |-> TRUE, items |-> <<"cap-1", "CAP-001">>],
    [isArray |-> TRUE, items |-> <<"CAP-001", NonString>>] }

\* The governance blocks of the files: absent, or with each section varied.
LintGovernance ==
  { [gov |-> FALSE, adrs |-> AbsentAdrs, bdd |-> AbsentBdd, nfrs |-> AbsentNfrs,
     capabilities |-> NoCapabilities] }
  \cup
  { [gov |-> TRUE, adrs |-> a, bdd |-> b, nfrs |-> n, capabilities |-> c] :
      a \in LintAdrs, b \in LintBdd, n \in LintNfrs, c \in LintCapabilities }

LintIdTitle ==
  { [id |-> "ROAD-XXX", title |-> "Escrow"],
    [id |-> "ROAD-001", title |-> Undefined],
    [id |-> "ROAD-XXX", title |-> Undefined] }

\* The governance blocks tried with each id and title.
LintHeaderGovernance ==
  { g \in LintGovernance :
      \/ ~g.gov
      \/ /\ g.adrs = BaseRoad.adrs
         /\ g.bdd = BaseRoad.bdd
         /\ g.nfrs.present /\ g.nfrs.applicable.items = NfrIds
         /\ g.capabilities = BaseRoad.capabilities }

RoadRecord(t, s, g) ==
  [BaseRoad EXCEPT !.id = t.id, !.title = t.title, !.status = s, !.gov = g.gov,
     !.adrs = g.adrs, !.bdd = g.bdd, !.nfrs = g.nfrs,
     !.capabilities = g.capabilities]

\* A file without a front-matter block, and one whose block is not YAML.
NoFrontMatter == [BaseRoad EXCEPT !.kind = "none"]
BrokenYaml == [BaseRoad EXCEPT !.kind = "yamlerror"]

\* The state after main ran lintRoadItem(t) on a tree whose roadmap file is fm.
LintRoadOutcome(t, fm) ==
  LET run == lintRoadItem(t, fm) IN
  /\ target' = t
  /\ roadFm' = fm
  /\ returned' = run.validation
  /\ results' = run.results
  /\ exitCode' = ExitCodeOf(run.results, run.threw)

\* governance-linter.js ROAD-nnn: main runs lintRoadItem(targetRoad), prints
\* the results and exits.  The file declares the id asked for, or another id,
\* or has no readable front matter.
LintRoad ==
  /\ pc = "idle"
  /\ \/ \E s \in StatusValues, g \in LintGovernance :
          LintRoadOutcome(BaseRoad.id, RoadRecord(BaseRoad, s, g))
     \/ \E t \in LintIdTitle, s \in StatusValues, g \in LintHeaderGovernance :
          LintRoadOutcome(t.id, RoadRecord(t, s, g))
     \/ \E fm \in {BaseRoad, NoFrontMatter, BrokenYaml} :
          LintRoadOutcome("ROAD-002", fm)
  /\ cmd' = "lintRoadItem"
  /\ pc' = "done"
  /\ prevState' = Undefined
  /\ UNCHANGED <<counts, status, history, scriptVars, changeVars, batchVars, adrVars, bddVars>>

(***************************************************************************)
(* First-generation linter: validateRoadItem, validateAllRoads, main       *)
(***************************************************************************)
VALID_PRIORITIES == <<"high", "medium", "low">>

\* isValidDate over the dates the model uses: "2026-01-05" is a date,
\* "05/01/2026" fails the pattern, "2026-13-45" passes it and is no date.
isValidDate(dateStr) == dateStr = "2026-01-05"

\* typeof data.phase !== 'number' || data.phase < 0
InvalidPhase(phase) == phase \in {"-1", "one"}

\* gray-matter on a file without front matter gives an empty data object
EmptyData ==
  [BaseRoad EXCEPT !.id = Undefined, !.title = Undefined, !.status = Undefined,
     !.phase = Undefined, !.priority = Undefined, !.created = Undefined,
     !.depends_on = Undefined, !.gov = FALSE, !.adrs = AbsentAdrs,
     !.bdd = AbsentBdd, !.nfrs = AbsentNfrs, !.capabilities = NoCapabilities]

DateWarnings(value, field) ==
  IF Truthy(value) /\ ~isValidDate(value)
  THEN <<Err("Invalid date format for", <<field, value>>)>> ELSE <<>>

ArrayErrors(value, field) ==
  IF Truthy(value) /\ value # "array"
  THEN <<Err("must be an array", <<field>>)>> ELSE <<>>

\* content.includes('ROAD-XXX') || content.includes('YYYY-MM-DD')
HasPlaceholders(data) ==
  \/ data.placeholders
  \/ data.id = "ROAD-XXX"
  \/ "YYYY-MM-DD" \in {data.created, data.started, data.completed}

LegacyStatusErrors(data) ==
  IF ~Truthy(data.status) THEN <<Err("Missing required field", <<"status">>)>>
  ELSE IF ~Includes(VALID_ROAD_STATUSES, data.status)
  THEN <<Err("Invalid status", <<data.status>>)>>
  ELSE <<>>

LegacyFieldErrors(data) ==
  (IF ~Truthy(data.id) THEN <<Err("Missing required field", <<"id">>)>>
   ELSE IF ~RoadIdMatches(data.id) THEN <<Err("Invalid id format", <<data.id>>)>>
   ELSE <<>>)
  \o Missing(data.title, "title")
  \o LegacyStatusErrors(data)
  \o (IF data.phase # Undefined /\ InvalidPhase(data.phase)
      THEN <<Err("Invalid phase", <<data.phase>>)>> ELSE <<>>)
  \o (IF Truthy(data.priority) /\ ~Includes(VALID_PRIORITIES, data.priority)
      THEN <<Err("Invalid priority", <<data.priority>>)>> ELSE <<>>)
  \o (IF Truthy(BddStatus(data)) /\ BddStatus(data) \notin {"draft", "approved"}
      THEN <<Err("Invalid governance.bdd.status", <<BddStatus(data)>>)>> ELSE <<>>)
  \o (IF Truthy(NfrsStatus(data))
         /\ NfrsStatus(data) \notin {"pending", "validating", "pass", "fail"}
      THEN <<Err("Invalid governance.nfrs.status", <<NfrsStatus(data)>>)>> ELSE <<>>)
  \o ArrayErrors(data.depends_on, "depends_on")
  \o ArrayErrors(data.blocked_by, "blocked_by")
  \o ArrayErrors(data.blocks, "blocks")

LegacyFieldWarnings(data) ==
  (IF data.phase = Undefined THEN <<Err("Missing field: phase (defaulting to 1)", <<>>)>>
   ELSE <<>>)
  \o DateWarnings(data.created, "created")
  \o DateWarnings(data.started, "started")
  \o DateWarnings(data.completed, "completed")
  \o (IF HasPlaceholders(data)
      THEN <<Err("Contains unresolved template placeholders", <<>>)>> ELSE <<>>)

\* validateRoadItem(filePath): matter() raises on a block that is not YAML and
\* data.id.match raises on an id that is not a string; both are caught.
validateRoadItem(fm) ==
  IF fm.kind = "yamlerror" \/ (fm.kind = "record" /\ fm.id = NonString)
  THEN [errors |-> <<Err("Failed to parse file", <<>>)>>, warnings |-> <<>>,
        threw |-> FALSE]
  ELSE LET data == IF fm.kind = "none" THEN EmptyData ELSE fm IN
       [errors |-> LegacyFieldErrors(data), warnings |-> LegacyFieldWarnings(data),
        threw |-> FALSE]

\* validateAllRoads() over the files of roads/ named ROAD-<digits>.md
validateAllRoads(dirExists, files) ==
  IF ~dirExists \/ Len(files) = 0
  THEN NoCounts
  ELSE LET ok == SelectSeq(files, LAMBDA f : validateRoadItem(f).errors = <<>>) IN
       [total |-> Len(files), passed |-> Len(ok), failed |-> Len(files) - Len(ok)]

\* main of the first-generation linter, called with --all-roads
LegacyExitCode(roadResults) == IF roadResults.failed > 0 THEN "1" ELSE "0"

LegacyGovernance ==
  { [gov |-> FALSE, adrs |-> AbsentAdrs, bdd |-> AbsentBdd, nfrs |-> AbsentNfrs,
     capabilities |-> NoCapabilities] }
  \cup
  { [gov |-> TRUE, adrs |-> BaseRoad.adrs,
     bdd |-> [BaseRoad.bdd EXCEPT !.status = b],
     nfrs |-> [BaseRoad.nfrs EXCEPT !.status = n],
     capabilities |-> BaseRoad.capabilities] :
      b \in {"approved", "pending"},
      n \in {Undefined, "pending", "pass", "fail", "blocked"} }

\* The remaining front-matter fields: phase, priority, dates, dependency
\* lists, placeholders.
LegacyDetails ==
  { [phase |-> "1", priority |-> "high",
     created |-> "2026-01-05", started |-> Undefined, completed |-> Undefined,
     depends_on |-> "array", blocked_by |-> Undefined, blocks |-> Undefined,
     placeholders |-> FALSE],
    [phase |-> Undefined, priority |-> Undefined,
     created |-> "05/01/2026", started |-> "2026-01-05", completed |-> "2026-13-45",
     depends_on |-> "array", blocked_by |-> "array", blocks |-> "array",
     placeholders |-> FALSE],
    [phase |-> "1", priority |-> "low",
     created |-> "YYYY-MM-DD", started |-> Undefined, completed |-> Undefined,
     depends_on |-> Undefined, blocked_by |-> Undefined, blocks |-> Undefined,
     placeholders |-> TRUE],
    [phase |-> "-1", priority |-> "urgent",
     created |-> Undefined, started |-> NonString, completed |-> Undefined,
     depends_on |-> "ROAD-002", blocked_by |-> "ROAD-002", blocks |-> "ROAD-002",
     placeholders |-> FALSE],
    [phase |-> "one", priority |-> "medium",
     created |-> "2026-01-05", started |-> "2026-01-05", completed |-> "2026-01-05",
     depends_on |-> "array", blocked_by |-> Undefined, blocks |-> "ROAD-002",
     placeholders |-> FALSE] }

LegacyRecord(i, t, s, g, d) ==
  [RoadRecord([id |-> i, title |-> t], s, g) EXCEPT
     !.phase = d.phase, !.priority = d.priority,
     !.created = d.created, !.started = d.started,
     !.completed = d.completed, !.depends_on = d.depends_on,
     !.blocked_by = d.blocked_by, !.blocks = d.blocks,
     !.placeholders = d.placeholders]

\* The state after the first-generation main ran with --all-roads.
LegacyOutcome(dirExists, files) ==
  LET roadResults == validateAllRoads(dirExists, files) IN
  /\ roadFm' = IF Len(files) > 0 THEN files[1] ELSE BaseRoad
  /\ returned' = IF dirExists /\ Len(files) > 0 THEN validateRoadItem(files[1])
                 ELSE NothingReturned
  /\ counts' = roadResults
  /\ exitCode' = LegacyExitCode(roadResults)

\* governance-linter.js --all-roads (first generation) over a roads/
\* directory that holds one roadmap file, or none, or that does not exist.
LegacyAllRoads ==
  /\ pc = "idle"
  /\ \/ \E i \in {"ROAD-001", "ROAD-XXX", Undefined, NonString},
           t \in {"Escrow", Undefined}, s \in StatusValues,
           g \in LegacyGovernance, d \in LegacyDetails :
          LegacyOutcome(TRUE, <<LegacyRecord(i, t, s, g, d)>>)
     \/ \E fm \in {NoFrontMatter, BrokenYaml} : LegacyOutcome(TRUE, <<fm>>)
     \/ \E dirExists \in BOOLEAN : LegacyOutcome(dirExists, <<>>)
  /\ cmd' = "validateAllRoads"
  /\ pc' = "done"
  /\ target' = Undefined
  /\ prevState' = Undefined
  /\ UNCHANGED <<results, status, history, scriptVars, changeVars, batchVars, adrVars, bddVars>>

NextRoad == LintRoad \/ LegacyAllRoads \/ NewRun

SpecRoad == Init /\ [][NextRoad]_vars

(***************************************************************************)
(* Properties of the roadmap validators                                    *)
(***************************************************************************)
\* lintRoadItem found the record and validateRoadFrontMatter returned.
LintValidated ==
  pc = "done" /\ cmd = "lintRoadItem" /\ results.total = 1 /\ ~returned.threw

\* validateAllRoads handed the record to validateRoadItem.
LegacyValidated ==
  pc = "done" /\ cmd = "validateAllRoads" /\ counts.total = 1
  /\ roadFm.kind = "record"

\* The gate preconditions of section 4.3 that the record's status breaks.
GateViolated(fm) ==
  \/ fm.status \in AtOrBeyondBddPending /\ AdrsValidated(fm) # "true"
  \/ fm.status \in AtOrBeyondImplementing /\ BddStatus(fm) # "approved"
  \/ fm.status = "complete"
     /\ (NfrsStatus(fm) # "pass"
         \/ \E n \in Range(ApplicableNfrs(fm)) : NfrResult(fm, n) # "pass")

\* C3: lintRoadItem, which knows no previous status, still reports an error
\* for a record whose status violates a gate precondition.
C3_GatesWithoutPrevious ==
  (LintValidated /\ GateViolated(roadFm)) => Len(results.errors) > 0

\* C4: the linter reports an error for a complete record that lists an
\* applicable NFR without a passing result, also when nfrs.status is pass.
C4_ApplicableNfrsPass ==
  (LintValidated /\ roadFm.status = "complete"
     /\ \E n \in Range(ApplicableNfrs(roadFm)) : NfrResult(roadFm, n) # "pass")
    => Len(results.errors) > 0

\* The messages of the roadmap validators that mention NFRs.
NfrMessages ==
  { "All NFRs must pass before status can be complete",
    "All NFRs must pass before complete",
    "NFR must pass before complete",
    "Missing governance.nfrs section required for this status",
    "governance.nfrs.results required when status is nfr_validating or complete",
    "governance.nfrs.applicable must be an array",
    "Invalid governance.nfrs.status",
    "ROAD item must have at least one capability OR non-compliant NFR" }

MentionsNfrs(errs) == \E i \in DOMAIN errs : errs[i].msg \in NfrMessages

\* C5: a complete record whose governance.nfrs.status is not pass gets an
\* error mentioning NFRs and the run exits with code 1, in both linters.
C5_CompleteNeedsNfrPass ==
  /\ (pc = "done" /\ cmd = "lintRoadItem" /\ results.total = 1
        /\ roadFm.status = "complete" /\ NfrsStatus(roadFm) # "pass")
       => (MentionsNfrs(results.errors) /\ exitCode = "1")
  /\ (LegacyValidated /\ roadFm.status = "complete" /\ NfrsStatus(roadFm) # "pass")
       => (MentionsNfrs(returned.errors) /\ exitCode = "1")

HasStatusError(errs) ==
  \E i \in DOMAIN errs :
    \/ errs[i].msg = "Invalid status"
    \/ errs[i].msg = "Missing required field" /\ errs[i].args = <<"status">>

Value(kind, items) == [kind |-> kind, items |-> items]

\* extractFrontMatter: yaml.load drops the comment and reads [] as a list,
\* a key without a value as null.
yamlLoadSignatures(src) ==
  CASE src.form = "absent" -> Value("undefined", <<>>)
    [] src.form = "bare" -> Value("null", <<>>)
    [] src.form \in {"empty", "emptyCommented"} -> Value("array", <<>>)
    [] OTHER -> Value("array", src.items)

\* Characters of the text "[]  # Populated during governance workflow"
CommentedEmptyLength == 42

\* parseFrontmatter: a key without a value and without "- " items below it
\* opens a nested object; parseValue reads "[...]" as a list only if the text
\* ends with "]", otherwise the text stays a string.
parseFrontmatterSignatures(src) ==
  CASE src.form = "absent" -> Value("undefined", <<>>)
    [] src.form = "bare" -> Value("object", <<>>)
    [] src.form = "empty" -> Value("array", <<>>)
    [] src.form = "emptyCommented" ->
         Value("string", [i \in 1..CommentedEmptyLength |-> NoFields])
    [] OTHER -> Value("array", src.items)

\* !value
Falsy(v) ==
  \/ v.kind \in {"undefined", "null"}
  \/ v.kind = "string" /\ v.items = <<>>

\* value.length === 0
LengthIsZero(v) == v.kind \in {"array", "string"} /\ Len(v.items) = 0

\* what for (i = 0; i < value.length; i++) value[i] visits
Indexed(v) == IF v.kind \in {"array", "string"} THEN v.items ELSE <<>>

(***************************************************************************)
(* lintChangeFiles and main of governance-linter.js --changes              *)
(***************************************************************************)
REQUIRED_FIELDS ==
  <<"id", "road_id", "title", "date", "version", "status", "categories">>

REQUIRED_COMPLIANCE == <<"adr_check", "bdd_check", "nfr_checks">>

MissingFieldErrors(fields) ==
  LET sel == SelectSeq(REQUIRED_FIELDS, LAMBDA f : f \in fields)
  IN [i \in 1..Len(sel) |-> Err("Missing required field", <<sel[i]>>)]

MissingCheckErrors(compliance) ==
  LET sel == SelectSeq(REQUIRED_COMPLIANCE, LAMBDA c : ~compliance[c].present)
  IN [i \in 1..Len(sel) |-> Err("Missing compliance check", <<sel[i]>>)]

\* !frontMatter[field]
LintMissingFields(fm) ==
  { f \in Range(REQUIRED_FIELDS) :
      IF f = "categories" THEN fm.categories.kind = "undefined"
      ELSE ~Truthy(fm[f]) }

LintComplianceErrors(fm) ==
  IF ~fm.compliance.present THEN <<Err("Missing compliance section", <<>>)>>
  ELSE MissingCheckErrors(fm.compliance)

NoSignature == "Published changes must have at least one signature"

LintSignatureErrors_AbsentOnly(fm) ==
  IF fm.status = "published" /\ Falsy(yamlLoadSignatures(fm.signatures))
  THEN <<Err(NoSignature, <<>>)>> ELSE <<>>

LintSignatureErrors(fm) ==
  LET signatures == yamlLoadSignatures(fm.signatures) IN
  IF fm.status = "published" /\ (Falsy(signatures) \/ LengthIsZero(signatures))
  THEN <<Err(NoSignature, <<>>)>> ELSE <<>>

ChangeFile == "CHANGE-001"

\* The accumulator after lintChangeFiles() over docs/changes holding the one
\* file fm, or over a tree without docs/changes.
lintChangeFiles(fm) ==
  IF fm.kind = "nodir"
  THEN [EmptyResults EXCEPT
          !.errors = <<Entry("docs/changes",
                             Err("docs/changes/ directory not found", <<>>))>>]
  ELSE IF fm.kind = "none"
  THEN [EmptyResults EXCEPT
          !.errors = <<Entry(ChangeFile, Err("No front matter found", <<>>))>>,
          !.total = 1]
  ELSE IF fm.kind = "yamlerror"
  THEN [EmptyResults EXCEPT
          !.errors = <<Entry(ChangeFile, Err("Invalid YAML", <<>>))>>,
          !.total = 1]
  ELSE [errors |-> Entries(ChangeFile,
                     MissingFieldErrors(LintMissingFields(fm))
                       \o LintComplianceErrors(fm) \o LintSignatureErrors(fm)),
        warnings |-> <<>>,
        passed |-> <<Entry(ChangeFile, Err("CHANGE file validated", <<>>))>>,
        total |-> 1]

(***************************************************************************)
(* validateChangeFrontMatter of governance-linter.js.  No command of the   *)
(* script calls it: main reaches change files through lintChangeFiles only.*)
(***************************************************************************)
\* /^CHANGE-\d+$/ and /^ROAD-\d+$/ over the ids the model uses
ChangeIdMatches(id) == id = "CHANGE-001"

RoadRefMatches(roadId) == roadId \in {"ROAD-001", "ROAD-999"}

\* The roads directory: the one file ROAD-001.md declaring status disk, or
\* no file at all.
RoadTree(disk) ==
  IF disk = NoFile THEN [BaseRoad EXCEPT !.kind = "nofile"]
  ELSE [BaseRoad EXCEPT !.status = disk]

requiredAgents ==
  <<"@arch-inspector", "@bdd-writer", "@bdd-runner", "@code-writer",
    "@performance-agent", "@security-agent", "@a11y-agent">>

RoadReferenceErrors(fm, disk) ==
  IF ~Truthy(fm.road_id) THEN <<>>
  ELSE IF ~findRoadFile(fm.road_id, RoadTree(disk))
  THEN <<Err("Referenced ROAD item not found", <<fm.road_id>>)>>
  ELSE IF disk # "complete"
  THEN <<Err("Referenced ROAD item is not complete", <<fm.road_id, disk>>)>>
  ELSE <<>>

RECURSIVE AgentErrors(_, _)
AgentErrors(signatures, i) ==
  IF i > Len(requiredAgents) THEN <<>>
  ELSE LET agent == requiredAgents[i]
           found == SelectSeq(signatures, LAMBDA sig : sig.agent = agent)
       IN (IF found = <<>> THEN <<Err("Missing signature from", <<agent>>)>>
           ELSE IF found[1].status # "approved"
           THEN <<Err("signature status must be 'approved'", <<agent>>)>>
           ELSE <<>>)
          \o AgentErrors(signatures, i + 1)

validateChangeFrontMatter(fm, disk) ==
  LET signatures == yamlLoadSignatures(fm.signatures) IN
  [errors |->
     MissingFieldErrors({f \in {"id", "road_id", "status"} : ~Truthy(fm[f])})
     \o (IF Truthy(fm.id) /\ ~ChangeIdMatches(fm.id)
         THEN <<Err("Invalid id format", <<fm.id>>)>> ELSE <<>>)
     \o (IF Truthy(fm.road_id) /\ ~RoadRefMatches(fm.road_id)
         THEN <<Err("Invalid road_id format", <<fm.road_id>>)>> ELSE <<>>)
     \o RoadReferenceErrors(fm, disk)
     \o (IF fm.status # "published" THEN <<>>
         ELSE IF Falsy(signatures) \/ signatures.kind # "array"
         THEN <<Err("Published CHANGE entries must have signatures array", <<>>)>>
         ELSE AgentErrors(signatures.items, 1)),
   warnings |-> <<>>, threw |-> FALSE]

(***************************************************************************)
(* validate-changes.js: validateChange and main                            *)
(***************************************************************************)
VALID_STATUSES == <<"draft", "published", "archived">>

VALID_CATEGORIES ==
  <<"Added", "Changed", "Deprecated", "Removed", "Fixed", "Security">>

\* typeof value === 'number' over the values the model uses
IsNumber(v) == v \in {"0", "7"}

\* parseFrontmatter on a file without a front-matter block: data is {}
EmptyChange ==
  [BaseChange EXCEPT !.id = Undefined, !.road_id = Undefined,
     !.title = Undefined, !.date = Undefined, !.version = Undefined,
     !.status = Undefined, !.categories = [kind |-> "undefined", items |-> <<>>],
     !.compliance = NoCompliance]

\* data[field] === undefined || data[field] === null
ChangeMissingFields(data) ==
  { f \in Range(REQUIRED_FIELDS) :
      IF f = "categories" THEN data.categories.kind = "undefined"
      ELSE data[f] = Undefined }

ChangeStatusErrors(data) ==
  IF Truthy(data.status) /\ ~Includes(VALID_STATUSES, data.status)
  THEN <<Err("Invalid status", <<data.status>>)>> ELSE <<>>

CategoryErrors(data) ==
  IF data.categories.kind = "undefined" THEN <<>>
  ELSE IF data.categories.kind # "array"
  THEN <<Err("categories must be an array", <<>>)>>
  ELSE LET bad == SelectSeq(data.categories.items,
                            LAMBDA cat : ~Includes(VALID_CATEGORIES, cat))
       IN [i \in 1..Len(bad) |-> Err("Invalid category", <<bad[i]>>)]

AdrCheckErrors(c) ==
  IF c.adr_check.present /\ c.adr_check.status \notin {"pending", "pass", "fail"}
  THEN <<Err("Invalid adr_check.status", <<c.adr_check.status>>)>> ELSE <<>>

BddCheckErrors(c) ==
  IF ~c.bdd_check.present THEN <<>>
  ELSE (IF c.bdd_check.status \notin {"pending", "pass", "fail"}
        THEN <<Err("Invalid bdd_check.status", <<c.bdd_check.status>>)>>
        ELSE <<>>)
       \o (IF ~IsNumber(c.bdd_check.scenarios)
           THEN <<Err("bdd_check.scenarios must be a number", <<>>)>> ELSE <<>>)
       \o (IF ~IsNumber(c.bdd_check.passed)
           THEN <<Err("bdd_check.passed must be a number", <<>>)>> ELSE <<>>)

nfrTypes == <<"performance", "security", "accessibility">>

RECURSIVE NfrCheckErrors(_, _)
NfrCheckErrors(checks, i) ==
  IF ~checks.present \/ i > Len(nfrTypes) THEN <<>>
  ELSE LET nfrType == nfrTypes[i] IN
       (IF ~checks[nfrType].present
        THEN <<Err("Missing nfr_checks", <<nfrType>>)>>
        ELSE IF checks[nfrType].status \notin {"pending", "pass", "fail", "na"}
        THEN <<Err("Invalid nfr_checks status", <<nfrType, checks[nfrType].status>>)>>
        ELSE <<>>)
       \o NfrCheckErrors(checks, i + 1)

ChangeComplianceErrors(data) ==
  IF ~data.compliance.present THEN <<Err("Missing compliance section", <<>>)>>
  ELSE MissingCheckErrors(data.compliance)
       \o AdrCheckErrors(data.compliance)
       \o BddCheckErrors(data.compliance)
       \o NfrCheckErrors(data.compliance.nfr_checks, 1)

SignatureKeys == <<"agent", "role", "status", "timestamp">>

RECURSIVE SignatureFieldErrors(_, _)
SignatureFieldErrors(signatures, i) ==
  IF i > Len(signatures) THEN <<>>
  ELSE LET lacking == SelectSeq(SignatureKeys,
                                LAMBDA k : ~Truthy(signatures[i][k]))
       IN [j \in 1..Len(lacking) |->
             Err("Signature missing field", <<ToString(i), lacking[j]>>)]
          \o SignatureFieldErrors(signatures, i + 1)

ChangeSignatureErrors(data) ==
  LET signatures == parseFrontmatterSignatures(data.signatures) IN
  IF data.status # "published" THEN <<>>
  ELSE IF Falsy(signatures) \/ LengthIsZero(signatures)
  THEN <<Err(NoSignature, <<>>)>>
  ELSE SignatureFieldErrors(Indexed(signatures), 1)

\* JSON.stringify(data) includes 'XXX' or 'YYY', over the values the model uses
ChangePlaceholderErrors(data) ==
  IF {data.id, data.road_id, data.date} \cap {"CHANGE-XXX", "ROAD-XXX", "YYYY-MM-DD"} # {}
  THEN <<Err("Frontmatter contains placeholder text (XXX or YYY)", <<>>)>>
  ELSE <<>>

\* The errors validateChange(filePath) returns for the file written as fm.
validateChange(fm) ==
  LET data == IF fm.kind = "none" THEN EmptyChange ELSE fm IN
  MissingFieldErrors(ChangeMissingFields(data))
    \o ChangeStatusErrors(data)
    \o CategoryErrors(data)
    \o ChangeComplianceErrors(data)
    \o ChangeSignatureErrors(data)
    \o ChangePlaceholderErrors(data)

\* main of validate-changes.js: the counters and the exit code after the
\* loop over the files, or after an early exit (no directory, no such file).
ChangeCounts(dirExists, fileFound, errors) ==
  IF ~dirExists \/ ~fileFound THEN NoCounts
  ELSE [total |-> 1,
        passed |-> IF errors = <<>> THEN 1 ELSE 0,
        failed |-> IF errors = <<>> THEN 0 ELSE 1]

ChangeExitCode(dirExists, fileFound, changeCounts) ==
  IF ~dirExists \/ ~fileFound \/ changeCounts.failed > 0 THEN "1" ELSE "0"

(***************************************************************************)
(* Change files the commands are run on                                    *)
(***************************************************************************)
ChangeIds == {"CHANGE-001", "CHANGE-XXX", Undefined}

RoadRefs == {"ROAD-001", "ROAD-999", Undefined}

ChangeHeaders ==
  { [title |-> BaseChange.title, date |-> BaseChange.date,
     version |-> BaseChange.version],
    [title |-> Undefined, date |-> "YYYY-MM-DD", version |-> ""] }

ChangeStatuses == {"draft", "published", "archived", "released", Undefined}

ChangeCategories ==
  { ArrayOf(<<"Added", "Fixed">>), ArrayOf(<<"Improved">>),
    [kind |-> "string", items |-> <<>>],
    [kind |-> "undefined", items |-> <<>>] }

ChangeCompliance ==
  { FullCompliance, NoCompliance,
    [FullCompliance EXCEPT !.adr_check = NoCheck,
       !.nfr_checks.security = NoCheck, !.nfr_checks.accessibility = Check("n/a")],
    [FullCompliance EXCEPT !.adr_check = Check("na"),
       !.bdd_check.status = Undefined, !.bdd_check.scenarios = "seven"] }

ChangeSignatures ==
  { SignaturesSource("absent", <<>>),
    SignaturesSource("empty", <<>>),
    SignaturesSource("emptyCommented", <<>>),
    SignaturesSource("bare", <<>>),
    SignaturesSource("block", <<Signature("@code-writer", "approved")>>),
    SignaturesSource("block",
      <<Signature("@bdd-runner", "rejected"),
        [NoFields EXCEPT !.role = "reviewer"]>>) }

RoadsOnDisk == {NoFile, "implementing", "complete"}

ChangeRecord(h, i, r, s, c, k, g) ==
  [kind |-> "record", id |-> i, road_id |-> r, title |-> h.title,
   date |-> h.date, version |-> h.version, status |-> s, categories |-> c,
   compliance |-> k, signatures |-> g]

NoChangesDir == [BaseChange EXCEPT !.kind = "nodir"]
ChangeNoFrontMatter == [BaseChange EXCEPT !.kind = "none"]
ChangeBrokenYaml == [BaseChange EXCEPT !.kind = "yamlerror"]

\* The state after governance-linter.js --changes ran over the file fm.
LintChangesOutcome(fm, disk) ==
  /\ changeFm' = fm
  /\ roadOnDisk' = disk
  /\ results' = lintChangeFiles(fm)
  /\ exitCode' = ExitCodeOf(lintChangeFiles(fm), FALSE)

\* governance-linter.js --changes: main runs lintChangeFiles(), prints the
\* results and exits.
LintChanges ==
  /\ pc = "idle"
  /\ \/ \E h \in ChangeHeaders, i \in ChangeIds, r \in RoadRefs,
           s \in ChangeStatuses, c \in ChangeCategories, k \in ChangeCompliance,
           g \in ChangeSignatures, disk \in RoadsOnDisk :
          LintChangesOutcome(ChangeRecord(h, i, r, s, c, k, g), disk)
     \/ \E fm \in {NoChangesDir, ChangeNoFrontMatter, ChangeBrokenYaml},
           disk \in RoadsOnDisk :
          LintChangesOutcome(fm, disk)
  /\ cmd' = "lintChangeFiles"
  /\ pc' = "done"
  /\ target' = Undefined
  /\ returned' = NothingReturned
  /\ UNCHANGED <<roadFm, prevState, counts, status, history, scriptVars, batchVars, adrVars,
                 bddVars>>

\* The state after validate-changes.js [targetChangeId] ran over the file fm.
ValidateChangesOutcome(t, fm, disk) ==
  LET dirExists == fm.kind # "nodir"
      fileFound == t \in {Undefined, ChangeFile}
      errors == IF dirExists /\ fileFound THEN validateChange(fm) ELSE <<>>
      changeCounts == ChangeCounts(dirExists, fileFound, errors)
  IN /\ target' = t
     /\ changeFm' = fm
     /\ roadOnDisk' = disk
     /\ returned' = [NothingReturned EXCEPT !.errors = errors]
     /\ counts' = changeCounts
     /\ exitCode' = ChangeExitCode(dirExists, fileFound, changeCounts)

\* validate-changes.js with or without a change id: main validates the file
\* named, or every CHANGE-*.md, counts the failures and exits.
ValidateChanges ==
  /\ pc = "idle"
  /\ \/ \E h \in ChangeHeaders, i \in ChangeIds, r \in RoadRefs,
           s \in ChangeStatuses, c \in ChangeCategories, k \in ChangeCompliance,
           g \in ChangeSignatures, disk \in RoadsOnDisk :
          ValidateChangesOutcome(Undefined, ChangeRecord(h, i, r, s, c, k, g), disk)
     \/ \E t \in {ChangeFile, "CHANGE-002"},
           fm \in {BaseChange, NoChangesDir, ChangeNoFrontMatter},
           disk \in RoadsOnDisk :
          ValidateChangesOutcome(t, fm, disk)
  /\ cmd' = "validateChange"
  /\ pc' = "done"
  /\ UNCHANGED <<roadFm, prevState, results, status, history, scriptVars, batchVars, adrVars,
                 bddVars>>

NextChange == LintChanges \/ ValidateChanges \/ NewRun

SpecChange == Init /\ [][NextChange]_vars

(***************************************************************************)
(* Properties of the change validators                                     *)
(***************************************************************************)
\* A change command validated the front matter of the change file.
ChangeValidated ==
  /\ pc = "done" /\ changeFm.kind = "record"
  /\ \/ cmd = "lintChangeFiles" /\ results.total = 1
     \/ cmd = "validateChange" /\ counts.total = 1

\* The errors the command reported for the file.
ChangeErrors ==
  IF cmd = "lintChangeFiles" THEN results.errors ELSE returned.errors

\* roads/ holds a roadmap file declaring this id.
RoadExists(roadId) == findRoadFile(roadId, RoadTree(roadOnDisk))

NamesId(errs, id) ==
  \E i \in 1..Len(errs) : \E j \in 1..Len(errs[i].args) : errs[i].args[j] = id

\* C9: a published change entry is reported with an error unless the roadmap
\* item its road_id names exists and is complete, and a change entry whose
\* road_id names no existing roadmap item gets an error naming that id.
C9_RoadReference ==
  ChangeValidated =>
    /\ (changeFm.status = "published"
          /\ ~(RoadExists(changeFm.road_id) /\ roadOnDisk = "complete"))
         => ChangeErrors # <<>>
    /\ (Truthy(changeFm.road_id) /\ ~RoadExists(changeFm.road_id))
         => NamesId(ChangeErrors, changeFm.road_id)

\* The change file declares no signature: no key at all, or an empty list.
NoSignaturesDeclared ==
  changeFm.signatures.form \in {"absent", "empty", "emptyCommented"}

ListedSignatures ==
  IF changeFm.signatures.form = "block" THEN changeFm.signatures.items ELSE <<>>

\* C11: a published change entry that change validation accepts with zero
\* errors has a non-empty signatures list, every signature in it is approved
\* and every required agent has signed.
C11_AcceptedIsFullySigned ==
  (ChangeValidated /\ changeFm.status = "published" /\ ChangeErrors = <<>>) =>
    /\ ListedSignatures # <<>>
    /\ \A i \in 1..Len(ListedSignatures) : ListedSignatures[i].status = "approved"
    /\ \A a \in Range(requiredAgents) :
         \E i \in 1..Len(ListedSignatures) : ListedSignatures[i].agent = a

(***************************************************************************)
(* Properties of a linter run as a whole                                   *)
(***************************************************************************)
\* C12: the governance linter exits with code 0 when the run recorded zero
\* errors and with code 1 otherwise, whatever the number of warnings.
C12_ExitCodeFromErrors ==
  (pc = "done" /\ cmd = "lintRoadItem") =>
    exitCode = IF results.errors = <<>> THEN "0" ELSE "1"

(***************************************************************************)
(* lintAllRoads and main of governance-linter.js --all-roads, over the     *)
(* files of roads/ in glob order, and the same command run a second time   *)
(***************************************************************************)
\* The accumulator `results` of a process that starts: the module-level
\* constant is built anew, whatever an earlier process left in its own.
FreshResults_Kept(earlier) == earlier

FreshResults(earlier) == EmptyResults

\* results after one more lintRoadItem
Merge(acc, r) ==
  [errors |-> acc.errors \o r.errors, warnings |-> acc.warnings \o r.warnings,
   passed |-> acc.passed \o r.passed, total |-> acc.total + r.total]

\* frontMatter.id.startsWith('ROAD-') over the ids the model uses
StartsWithRoad(id) == id \in {"ROAD-001", "ROAD-002", "ROAD-XXX"}

\* findRoadFile(roadId) over the tree: the first file declaring the id
FirstWithId(files, roadId) ==
  CHOOSE j \in 1..Len(files) :
    /\ findRoadFile(roadId, files[j])
    /\ \A k \in 1..(j - 1) : ~findRoadFile(roadId, files[k])

\* The loop of lintAllRoads from file i on, acc being the accumulator so far.
\* A file named ROAD-TEMPLATE.md or index.md (kind "template") is skipped, so
\* is a file without front matter, with malformed YAML, without an id or with
\* an id that does not start with ROAD-.  startsWith on an id that is not a
\* string raises, and so may lintRoadItem: the exception leaves the loop.
RECURSIVE lintAllRoadsFrom(_, _, _)
lintAllRoadsFrom(files, i, acc) ==
  IF i > Len(files) THEN [results |-> acc, threw |-> FALSE]
  ELSE LET fm == files[i] IN
       IF fm.kind # "record" \/ ~Truthy(fm.id)
       THEN lintAllRoadsFrom(files, i + 1, acc)
       ELSE IF fm.id = NonString THEN [results |-> acc, threw |-> TRUE]
       ELSE IF ~StartsWithRoad(fm.id) THEN lintAllRoadsFrom(files, i + 1, acc)
       ELSE LET run == lintRoadItem(fm.id, files[FirstWithId(files, fm.id)])
                merged == Merge(acc, run.results)
            IN IF run.threw THEN [results |-> merged, threw |-> TRUE]
               ELSE lintAllRoadsFrom(files, i + 1, merged)

lintAllRoads(acc, files) == lintAllRoadsFrom(files, 1, acc)

RoadIds == <<"ROAD-001", "ROAD-002">>

GoodGovernance ==
  [gov |-> TRUE, adrs |-> BaseRoad.adrs, bdd |-> BaseRoad.bdd,
   nfrs |-> BaseRoad.nfrs, capabilities |-> BaseRoad.capabilities]

NoGovernance ==
  [gov |-> FALSE, adrs |-> AbsentAdrs, bdd |-> AbsentBdd, nfrs |-> AbsentNfrs,
   capabilities |-> NoCapabilities]

NumberAmongCapabilities ==
  [GoodGovernance EXCEPT
     !.capabilities = [isArray |-> TRUE, items |-> <<"CAP-001", NonString>>]]

\* What the k-th file of roads/ may hold.
BatchFiles(k) ==
  { RoadRecord([id |-> RoadIds[k], title |-> "Escrow"], s, g) :
      s \in StatusValues, g \in {GoodGovernance, NoGovernance} }
  \cup
  { RoadRecord([id |-> RoadIds[k], title |-> "Escrow"], "proposed",
               NumberAmongCapabilities),
    RoadRecord([id |-> NonString, title |-> "Escrow"], "proposed", GoodGovernance),
    RoadRecord([id |-> "CAP-001", title |-> "Escrow"], "proposed", GoodGovernance),
    [BaseRoad EXCEPT !.kind = "template", !.id = "ROAD-XXX"],
    NoFrontMatter, BrokenYaml }

\* The state after main ran lintAllRoads() over files in a process whose
\* accumulator started as FreshResults gives it.
LintAllRoadsOutcome(files) ==
  LET run == lintAllRoads(FreshResults(results), files) IN
  /\ results' = run.results
  /\ exitCode' = ExitCodeOf(run.results, run.threw)

\* governance-linter.js --all-roads on a tree of two files (declaring two ids,
\* or the same id twice), one file, or none (roads/ empty or missing: glob
\* returns no file).
LintAllRoads ==
  /\ pc = "idle"
  /\ \/ \E f1 \in BatchFiles(1), f2 \in BatchFiles(2) :
          roadFiles' = <<f1, f2>> /\ LintAllRoadsOutcome(<<f1, f2>>)
     \/ \E f1 \in BatchFiles(1), f2 \in BatchFiles(1) :
          roadFiles' = <<f1, f2>> /\ LintAllRoadsOutcome(<<f1, f2>>)
     \/ \E f1 \in BatchFiles(1) :
          roadFiles' = <<f1>> /\ LintAllRoadsOutcome(<<f1>>)
     \/ roadFiles' = <<>> /\ LintAllRoadsOutcome(<<>>)
  /\ cmd' = "lintAllRoads"
  /\ pc' = "done"
  /\ runs' = 1
  /\ UNCHANGED <<target, roadFm, prevState, returned, counts, status, history, scriptVars,
                 previous, changeVars, adrVars, bddVars>>

\* The same command again, in a new process, the files unchanged.
RunAgain ==
  /\ pc = "done" /\ cmd = "lintAllRoads" /\ runs = 1
  /\ previous' = [errors |-> results.errors, warnings |-> results.warnings,
                  exitCode |-> exitCode]
  /\ LintAllRoadsOutcome(roadFiles)
  /\ runs' = 2
  /\ UNCHANGED <<pc, cmd, target, roadFm, roadFiles, prevState, returned, counts,
                 status, history, scriptVars, changeVars, adrVars, bddVars>>

NextBatch == LintAllRoads \/ RunAgain \/ NewRun

SpecBatch == Init /\ [][NextBatch]_vars

\* The batch run has exited.
BatchDone == pc = "done" /\ cmd = "lintAllRoads"

\* The file is a roadmap record lintAllRoads hands to lintRoadItem and whose
\* own validation does not raise.
Lintable(fm) ==
  /\ fm.kind = "record" /\ fm.id # NonString /\ StartsWithRoad(fm.id)
  /\ ~RoadFrontMatterThrows(fm)

\* The run reported the record: an error of its own or "All validations passed".
Reported(id) ==
  \E i \in 1..Len(results.errors \o results.passed) :
    (results.errors \o results.passed)[i].id = id

\* C13: in a batch run, a file whose validation fails or raises never
\* prevents the other files from being validated and reported.
C13_BrokenFileIsLocal ==
  BatchDone =>
    \A i \in 1..Len(roadFiles) : Lintable(roadFiles[i]) => Reported(roadFiles[i].id)

\* The number of entries of errs with message m.
CountErrors(errs, m) == Cardinality({i \in 1..Len(errs) : errs[i].msg = m})

\* C14: in a run over all roadmap files, every file with malformed YAML in
\* its front-matter block contributes an 'Invalid YAML' error of its own and
\* every other file is still validated.
C14_InvalidYamlReported ==
  BatchDone =>
    /\ CountErrors(results.errors, "Invalid YAML")
         = Cardinality({i \in 1..Len(roadFiles) : roadFiles[i].kind = "yamlerror"})
    /\ (\A i \in 1..Len(roadFiles) : ~RoadFrontMatterThrows(roadFiles[i])
                                      \/ roadFiles[i].kind # "record")
         => \A i \in 1..Len(roadFiles) :
              Lintable(roadFiles[i]) => Reported(roadFiles[i].id)

C15_MissingDirectoryPasses ==
  (pc = "done" /\ cmd \in {"lintChangeFiles", "validateChange"}
     /\ changeFm.kind = "nodir") =>
    /\ ChangeErrors = <<>>
    /\ results.total = 0 /\ counts.total = 0
    /\ exitCode = "0"

\* The record is well formed: id, title and status are present, the id has
\* the ROAD format, every enumerated field holds an allowed value, the typed
\* fields hold values of their type, the capabilities it references exist and
\* its status breaks no gate precondition.
WellFormedRoad(fm) ==
  /\ fm.kind = "record"
  /\ Truthy(fm.id) /\ fm.id # NonString /\ RoadIdMatches(fm.id)
  /\ Truthy(fm.title)
  /\ Includes(VALID_ROAD_STATUSES, fm.status)
  /\ fm.priority = Undefined \/ Includes(VALID_PRIORITIES, fm.priority)
  /\ fm.phase = Undefined \/ ~InvalidPhase(fm.phase)
  /\ \A d \in {fm.depends_on, fm.blocked_by, fm.blocks} : d \in {Undefined, "array"}
  /\ BddStatus(fm) \in {Undefined, "draft", "approved"}
  /\ NfrsStatus(fm) \in {Undefined, "pending", "validating", "pass", "fail"}
  /\ \A c \in Range(fm.capabilities.items) :
       c # NonString /\ CapIdMatches(c) /\ findCapabilityFile(c)
  /\ ~GateViolated(fm)

\* C17: a roadmap item with all required fields (id, title, status), valid
\* enum values and satisfied gate preconditions is validated with zero errors
\* and the run exits with code 0.
C17_WellFormedPasses ==
  /\ (LintValidated /\ WellFormedRoad(roadFm)) =>
       (results.errors = <<>> /\ exitCode = "0")
  /\ (LegacyValidated /\ WellFormedRoad(roadFm)) =>
       (returned.errors = <<>> /\ exitCode = "0")

(***************************************************************************)
(* validate-bdd-tags.js, the script that checks @CAP tags against the      *)
(* known capabilities: extractTags, validateFeatureFile, main              *)
(***************************************************************************)
VALID_CAPABILITIES ==
  <<"CAP-001", "CAP-002", "CAP-003", "CAP-004", "CAP-005", "CAP-006", "CAP-007">>

FeatureFile == "escrow.feature"

RECURSIVE Flatten(_)
Flatten(lines) == IF lines = <<>> THEN <<>> ELSE Head(lines) \o Flatten(Tail(lines))

\* extractTags(content): the tags of every line that starts with "@", in
\* file order: the lines above Feature:, then the line above each scenario.
extractTags(file) ==
  Flatten(file.tagLines)
    \o Flatten([i \in 1..Len(file.scenarios) |-> file.scenarios[i].tags])

\* tag.match(/^@CAP-\d+$/) over the tags the model uses
IsCapTag(tag) == tag \in {"@CAP-001", "@CAP-999"}

\* tag.substring(1)
CapIdOf(tag) == IF tag = "@CAP-001" THEN "CAP-001" ELSE "CAP-999"

\* The accumulator after validateFeatureFile(filePath) of this script.
validateFeatureTags(file, isStrict) ==
  LET capTags == SelectSeq(extractTags(file), IsCapTag)
      unknown == SelectSeq(capTags, LAMBDA t : ~Includes(VALID_CAPABILITIES, CapIdOf(t)))
      known == SelectSeq(capTags, LAMBDA t : Includes(VALID_CAPABILITIES, CapIdOf(t)))
  IN [errors |-> [i \in 1..Len(unknown) |->
                    Entry(FeatureFile, Err("Unknown capability tag", <<unknown[i]>>))],
      warnings |-> IF isStrict /\ capTags = <<>>
                   THEN <<Entry(FeatureFile,
                                Err("No capability tags found (@CAP-XXX)", <<>>))>>
                   ELSE <<>>,
      passed |-> [i \in 1..Len(known) |->
                    Entry(FeatureFile, Err("Valid capability tag", <<known[i]>>))],
      total |-> Len(capTags)]

(***************************************************************************)
(* validate-bdd-tags.js, the script that checks the structure of feature   *)
(* files: parseFeatureFile, validateFeatureFile, validateAllFeatures, main *)
(***************************************************************************)
\* parseFeatureFile: each line of tags replaces currentTags, so the feature
\* keeps the tags of the last line above Feature: only.
featureTags(file) ==
  IF file.tagLines = <<>> THEN <<>> ELSE file.tagLines[Len(file.tagLines)]

\* t.startsWith('@capability') || t.startsWith('@cap:'), and the same for
\* '@context' and '@ctx:', over the tags the model uses
IsCapabilityTag(tag) == tag \in {"@capability:escrow"}

IsContextTag(tag) == tag \in {"@context:marketplace"}

FeatureTagWarnings(file) ==
  IF featureTags(file) = <<>> THEN <<Err("No feature-level tags found", <<>>)>>
  ELSE (IF \E t \in Range(featureTags(file)) : IsCapabilityTag(t) THEN <<>>
        ELSE <<Err("Missing @capability tag at feature level", <<>>)>>)
       \o (IF \E t \in Range(featureTags(file)) : IsContextTag(t) THEN <<>>
           ELSE <<Err("Missing @context tag at feature level", <<>>)>>)

RECURSIVE ScenarioWarnings(_)
ScenarioWarnings(scenarios) ==
  IF scenarios = <<>> THEN <<>>
  ELSE LET sc == Head(scenarios) IN
       (IF ~sc.hasGiven /\ ~sc.hasWhen
        THEN <<Err("Missing Given or When step", <<sc.name>>)>> ELSE <<>>)
       \o (IF ~sc.hasThen THEN <<Err("Missing Then step", <<sc.name>>)>> ELSE <<>>)
       \o ScenarioWarnings(Tail(scenarios))

FeatureErrors(file) ==
  (IF file.featureName = "" THEN <<Err("Missing feature name", <<>>)>> ELSE <<>>)
  \o (IF file.scenarios = <<>> THEN <<Err("No scenarios found", <<>>)>> ELSE <<>>)
  \o LET unnamed == SelectSeq(file.scenarios, LAMBDA sc : sc.name = "")
     IN [i \in 1..Len(unnamed) |-> Err("Scenario has no name", <<>>)]

\* validateFeatureFile(filePath, strict) of this script: in strict mode the
\* warnings are appended to the errors.
validateFeatureFile(file, isStrict) ==
  LET errs == FeatureErrors(file)
      warns == FeatureTagWarnings(file) \o ScenarioWarnings(file.scenarios)
  IN IF isStrict
     THEN [errors |-> errs \o warns, warnings |-> <<>>, threw |-> FALSE]
     ELSE [errors |-> errs, warnings |-> warns, threw |-> FALSE]

(***************************************************************************)
(* Runs of the two validate-bdd-tags.js scripts                            *)
(***************************************************************************)
\* The lines of tags above Feature:, as feature files may have them.
TagLineChoices ==
  { <<>>,
    << <<"@CAP-001">> >>,
    << <<"@CAP-999">> >>,
    << <<"@smoke">> >>,
    << <<"@capability:escrow", "@context:marketplace">> >>,
    << <<"@capability:escrow", "@context:marketplace", "@CAP-999">> >>,
    << <<"@capability:escrow", "@context:marketplace">>, <<"@smoke">> >> }

FeatureNames == {"Escrow release", ""}

ScenarioChoices ==
  { <<>>,
    <<Scenario(<<>>, "Release on delivery", TRUE, TRUE, TRUE)>>,
    <<Scenario(<<"@CAP-999">>, "Release on delivery", TRUE, TRUE, TRUE)>>,
    <<Scenario(<<>>, "", TRUE, TRUE, TRUE)>>,
    <<Scenario(<<>>, "Release on delivery", FALSE, FALSE, FALSE)>> }

FeatureRecord(lines, name, scenarios) ==
  [kind |-> "file", tagLines |-> lines, featureName |-> name,
   scenarios |-> scenarios]

\* stack-tests/features/ does not exist, or holds no feature file.
NoFeaturesDir == [BaseFeature EXCEPT !.kind = "nodir"]

NoFeatureFiles == [BaseFeature EXCEPT !.kind = "none"]

\* The state after main of the capability-tag script ran over the file.
ValidateBddTagsOutcome(file, isStrict) ==
  LET acc == IF file.kind = "file" THEN validateFeatureTags(file, isStrict)
             ELSE EmptyResults
  IN /\ feature' = file
     /\ strict' = isStrict
     /\ results' = acc
     /\ exitCode' = IF acc.errors # <<>> THEN "1" ELSE "0"

\* validate-bdd-tags.js [--strict], the capability-tag script.
ValidateBddTags ==
  /\ pc = "idle"
  /\ \/ \E lines \in TagLineChoices, name \in FeatureNames,
           scenarios \in ScenarioChoices, isStrict \in BOOLEAN :
          ValidateBddTagsOutcome(FeatureRecord(lines, name, scenarios), isStrict)
     \/ \E file \in {NoFeaturesDir, NoFeatureFiles}, isStrict \in BOOLEAN :
          ValidateBddTagsOutcome(file, isStrict)
  /\ cmd' = "validateBddTags"
  /\ pc' = "done"
  /\ UNCHANGED <<target, roadFm, prevState, returned, counts, status, history, scriptVars,
                 changeVars, batchVars, adrVars>>

\* The state after validateAllFeatures(strict) and main of the structure
\* script ran over the file.
ValidateAllFeaturesOutcome(file, isStrict) ==
  LET found == file.kind = "file"
      result == IF found THEN validateFeatureFile(file, isStrict)
                ELSE NothingReturned
      failed == IF found /\ result.errors # <<>> THEN 1 ELSE 0
      total == IF found THEN 1 ELSE 0
  IN /\ feature' = file
     /\ strict' = isStrict
     /\ returned' = result
     /\ counts' = [total |-> total, passed |-> total - failed, failed |-> failed]
     /\ exitCode' = IF failed > 0 THEN "1" ELSE "0"

\* validate-bdd-tags.js [--strict], the structure script.
ValidateAllFeatures ==
  /\ pc = "idle"
  /\ \/ \E lines \in TagLineChoices, name \in FeatureNames,
           scenarios \in ScenarioChoices, isStrict \in BOOLEAN :
          ValidateAllFeaturesOutcome(FeatureRecord(lines, name, scenarios), isStrict)
     \/ \E isStrict \in BOOLEAN : ValidateAllFeaturesOutcome(NoFeatureFiles, isStrict)
  /\ cmd' = "validateAllFeatures"
  /\ pc' = "done"
  /\ UNCHANGED <<target, roadFm, prevState, results, status, history, scriptVars,
                 changeVars, batchVars, adrVars>>

NextBdd == ValidateBddTags \/ ValidateAllFeatures \/ NewRun

SpecBdd == Init /\ [][NextBdd]_vars

(***************************************************************************)
(* Properties of the feature-file validators                               *)
(***************************************************************************)
\* A validate-bdd-tags.js run went over the feature file.
FeatureValidated ==
  /\ pc = "done"
  /\ cmd \in {"validateBddTags", "validateAllFeatures"}
  /\ feature.kind = "file"

\* The errors the run reported.
FeatureRunErrors ==
  IF cmd = "validateBddTags"
  THEN [i \in 1..Len(results.errors) |->
          Err(results.errors[i].msg, results.errors[i].args)]
  ELSE returned.errors

\* The @CAP-<n> tags of the file that name no known capability.
UnknownCapTags ==
  { t \in Range(extractTags(feature)) :
      IsCapTag(t) /\ ~Includes(VALID_CAPABILITIES, CapIdOf(t)) }

\* C18: a feature file with a tag @CAP-<n> outside the known capabilities
\* gets an 'Unknown capability tag' error for that tag and the run exits 1,
\* with and without --strict.
C18_UnknownCapabilityTag ==
  FeatureValidated =>
    \A t \in UnknownCapTags :
      /\ Err("Unknown capability tag", <<t>>) \in Range(FeatureRunErrors)
      /\ exitCode = "1"

\* The file carries no capability tag of either form, and nothing else is
\* wrong with it.
OnlyLacksCapabilityTag ==
  /\ \A t \in Range(extractTags(feature)) : ~IsCapTag(t) /\ ~IsCapabilityTag(t)
  /\ feature.featureName # ""
  /\ feature.scenarios # <<>>
  /\ \A i \in 1..Len(feature.scenarios) :
       /\ feature.scenarios[i].name # ""
       /\ feature.scenarios[i].hasGiven
       /\ feature.scenarios[i].hasWhen
       /\ feature.scenarios[i].hasThen

\* C19: with --strict a feature file without a capability tag is an error
\* and the run exits 1; without --strict it is at most a warning and the run
\* exits 0.
C19_StrictNeedsCapabilityTag ==
  (FeatureValidated /\ OnlyLacksCapabilityTag) =>
    IF strict
    THEN FeatureRunErrors # <<>> /\ exitCode = "1"
    ELSE FeatureRunErrors = <<>> /\ exitCode = "0"

(***************************************************************************)
(* ADR validation, first generation: validateAdr, validateAllAdrs, main    *)
(***************************************************************************)
VALID_ADR_STATUSES == <<"proposed", "accepted", "deprecated", "superseded">>

VALID_ADR_CATEGORIES == <<"architecture", "infrastructure", "security", "performance">>

\* id.match(/^ADR-\d+$/) over the ids the model uses
AdrIdMatches(id) == id = "ADR-001"

AdrFieldErrors(data) ==
  (IF ~Truthy(data.id) THEN <<Err("Missing required field", <<"id">>)>>
   ELSE IF ~AdrIdMatches(data.id) THEN <<Err("Invalid id format", <<data.id>>)>>
   ELSE <<>>)
  \o Missing(data.title, "title")
  \o (IF ~Truthy(data.status) THEN <<Err("Missing required field", <<"status">>)>>
      ELSE IF ~Includes(VALID_ADR_STATUSES, data.status)
      THEN <<Err("Invalid status", <<data.status>>)>>
      ELSE <<>>)
  \o (IF Truthy(data.category) /\ ~Includes(VALID_ADR_CATEGORIES, data.category)
      THEN <<Err("Invalid category", <<data.category>>)>> ELSE <<>>)

\* content.includes('ADR-XXX') || content.includes('YYYY-MM-DD')
AdrHasPlaceholders(data) == data.id = "ADR-XXX" \/ data.created = "YYYY-MM-DD"

AdrFieldWarnings(data) ==
  DateWarnings(data.created, "created")
  \o (IF AdrHasPlaceholders(data)
      THEN <<Err("Contains unresolved template placeholders", <<>>)>> ELSE <<>>)

\* The front matter matter() returns for a file without a front-matter block.
EmptyAdrData ==
  [BaseAdr EXCEPT !.id = Undefined, !.title = Undefined, !.status = Undefined,
                  !.category = Undefined, !.created = Undefined]

\* validateAdr(filePath): the template is skipped; matter() raises on a block
\* that is not YAML and data.id.match raises on an id that is not a string;
\* both are caught.
validateAdr(file) ==
  IF file.name = "ADR-TEMPLATE.md"
  THEN [errors |-> <<>>, warnings |-> <<>>, skipped |-> TRUE]
  ELSE IF file.kind = "yamlerror" \/ (file.kind = "record" /\ file.id = NonString)
  THEN [errors |-> <<Err("Failed to parse file", <<>>)>>, warnings |-> <<>>,
        skipped |-> FALSE]
  ELSE LET data == IF file.kind = "none" THEN EmptyAdrData ELSE file IN
       [errors |-> AdrFieldErrors(data), warnings |-> AdrFieldWarnings(data),
        skipped |-> FALSE]

\* f.match(/^ADR-\d+\.md$/) over the file names the model uses
NamedAdr(name) == name = "ADR-001.md"

\* validateAllAdrs() over a directory adr/ holding the one file
validateAllAdrs(file) ==
  IF file.kind \in {"nodir", "nofiles"} \/ ~NamedAdr(file.name)
  THEN NoCounts
  ELSE LET result == validateAdr(file) IN
       IF result.skipped THEN [total |-> 1, passed |-> 0, failed |-> 0]
       ELSE IF result.errors = <<>> THEN [total |-> 1, passed |-> 1, failed |-> 0]
       ELSE [total |-> 1, passed |-> 0, failed |-> 1]

(***************************************************************************)
(* ADR validation, second generation: validateAdrFrontMatter, lintAdrs,    *)
(* main                                                                    *)
(***************************************************************************)
\* validateAdrFrontMatter(filePath, frontMatter); frontMatter.id.match raises
\* on an id that is not a string.
validateAdrFrontMatter(fm) ==
  IF fm.id = NonString
  THEN [errors |-> <<>>, warnings |-> <<>>, threw |-> TRUE]
  ELSE [errors |->
          Missing(fm.id, "id") \o Missing(fm.title, "title")
          \o Missing(fm.status, "status") \o Missing(fm.category, "category")
          \o (IF Truthy(fm.id) /\ ~AdrIdMatches(fm.id)
              THEN <<Err("Invalid id format", <<fm.id>>)>> ELSE <<>>)
          \o (IF Truthy(fm.status) /\ ~Includes(VALID_ADR_STATUSES, fm.status)
              THEN <<Err("Invalid status", <<fm.status>>)>> ELSE <<>>),
        warnings |-> <<>>,
        threw |-> FALSE]

\* glob.sync('adr/adr-*.md'): the pattern is in lower case, and whether it
\* matches names in upper case depends on the platform and the glob version.
GlobMatches(name, noCase) ==
  \/ name = "adr-001.md"
  \/ noCase /\ name \in {"ADR-001.md", "ADR-TEMPLATE.md"}

\* path.basename(file).includes('TEMPLATE')
IsTemplateName(name) == name = "ADR-TEMPLATE.md"

\* lintAdrs() over a directory adr/ holding the one file
lintAdrs(file, noCase) ==
  IF file.kind \in {"nodir", "nofiles"} \/ ~GlobMatches(file.name, noCase)
     \/ IsTemplateName(file.name)
  THEN [results |-> EmptyResults, threw |-> FALSE]
  ELSE IF file.kind = "none"
  THEN [results |-> [EmptyResults EXCEPT
                       !.errors = <<Entry(file.name, Err("No front matter found", <<>>))>>],
        threw |-> FALSE]
  ELSE IF file.kind = "yamlerror"
  THEN [results |-> [EmptyResults EXCEPT
                       !.errors = <<Entry(file.name, Err("Invalid YAML", <<>>))>>],
        threw |-> FALSE]
  ELSE LET validation == validateAdrFrontMatter(file) IN
       [results |->
          [errors |-> Entries(file.name, validation.errors),
           warnings |-> Entries(file.name, validation.warnings),
           passed |-> IF ~validation.threw /\ validation.errors = <<>>
                      THEN <<Entry(file.name, Err("All validations passed", <<>>))>>
                      ELSE <<>>,
           total |-> 1],
        threw |-> validation.threw]

(***************************************************************************)
(* ADR validation runs                                                     *)
(***************************************************************************)
AdrNames == {"ADR-001.md", "adr-001.md", "ADR-TEMPLATE.md"}

AdrIds == {"ADR-001", "ADR-XXX", Undefined, NonString}

AdrTitles == {BaseAdr.title, Undefined}

AdrStatuses == Range(VALID_ADR_STATUSES) \cup {"withdrawn", Undefined}

AdrCategories == {"architecture", "process", Undefined}

AdrRecord(n, i, t, s, c) ==
  [BaseAdr EXCEPT !.name = n, !.id = i, !.title = t, !.status = s, !.category = c]

\* adr/ is missing, is empty, or holds a file without front matter or with a
\* front-matter block that is not YAML.
AdrSpecialFiles ==
  { [BaseAdr EXCEPT !.kind = k] : k \in {"nodir", "nofiles", "none", "yamlerror"} }

\* The state after main of the second-generation linter ran with --adrs.
LintAdrsOutcome(file, noCase) ==
  LET run == lintAdrs(file, noCase) IN
  /\ adrFile' = file
  /\ globNoCase' = noCase
  /\ results' = run.results
  /\ exitCode' = ExitCodeOf(run.results, run.threw)

\* governance-linter.js --adrs, second generation
LintAdrFiles ==
  /\ pc = "idle"
  /\ \/ \E n \in AdrNames, i \in AdrIds, t \in AdrTitles, s \in AdrStatuses,
           c \in AdrCategories, noCase \in BOOLEAN :
          LintAdrsOutcome(AdrRecord(n, i, t, s, c), noCase)
     \/ \E file \in AdrSpecialFiles, noCase \in BOOLEAN :
          LintAdrsOutcome(file, noCase)
  /\ cmd' = "lintAdrs"
  /\ pc' = "done"
  /\ UNCHANGED <<target, roadFm, prevState, returned, counts, status, history, scriptVars,
                 changeVars, batchVars, bddVars>>

\* The state after main of the first-generation linter ran with --adrs.
LegacyAdrsOutcome(file) ==
  LET adrResults == validateAllAdrs(file)
      result == validateAdr(file)
  IN /\ adrFile' = file
     /\ returned' = IF adrResults.total = 0 \/ result.skipped THEN NothingReturned
                    ELSE [errors |-> result.errors, warnings |-> result.warnings,
                          threw |-> FALSE]
     /\ counts' = adrResults
     /\ exitCode' = LegacyExitCode(adrResults)

\* governance-linter.js --adrs, first generation
LegacyAllAdrs ==
  /\ pc = "idle"
  /\ \/ \E n \in AdrNames, i \in AdrIds, t \in AdrTitles, s \in AdrStatuses,
           c \in AdrCategories :
          LegacyAdrsOutcome(AdrRecord(n, i, t, s, c))
     \/ \E file \in AdrSpecialFiles : LegacyAdrsOutcome(file)
  /\ cmd' = "validateAllAdrs"
  /\ pc' = "done"
  /\ UNCHANGED <<target, roadFm, prevState, results, status, history, scriptVars, globNoCase,
                 changeVars, batchVars, bddVars>>

NextAdr == LintAdrFiles \/ LegacyAllAdrs \/ NewRun

SpecAdr == Init /\ [][NextAdr]_vars

(***************************************************************************)
(* Properties of the ADR validators                                        *)
(***************************************************************************)
\* An ADR validation run went over a directory adr/ that holds the file
\* adr/ADR-<n>.md with a front matter that parses.
AdrValidated ==
  /\ pc = "done"
  /\ cmd \in {"lintAdrs", "validateAllAdrs"}
  /\ adrFile.kind = "record"
  /\ NamedAdr(adrFile.name)

\* The errors the run reported for the file.
AdrRunErrors ==
  IF cmd = "lintAdrs"
  THEN [i \in 1..Len(results.errors) |->
          Err(results.errors[i].msg, results.errors[i].args)]
  ELSE returned.errors

\* C20: an ADR file adr/ADR-<n>.md that declares a status outside proposed,
\* accepted, deprecated, superseded gets an 'Invalid status' error and the
\* run exits 1.
C20_InvalidAdrStatus ==
  (AdrValidated /\ Truthy(adrFile.status)
     /\ ~Includes(VALID_ADR_STATUSES, adrFile.status)) =>
    /\ Err("Invalid status", <<adrFile.status>>) \in Range(AdrRunErrors)
    /\ exitCode = "1"

(***************************************************************************)
(* Enumerations, placeholders and id formats across the validators         *)
(***************************************************************************)
\* C21: a change entry whose status is anything but draft or published is
\* reported with an error about its status.
C21_ChangeStatusEnum ==
  (ChangeValidated /\ changeFm.status \notin {"draft", "published"}) =>
    HasStatusError(ChangeErrors)

\* The messages with which the validators report a template placeholder.
PlaceholderMessages ==
  {"Contains unresolved template placeholders",
   "Frontmatter contains placeholder text (XXX or YYY)"}

\* C22: a template placeholder left in the front matter is reported as a
\* warning and never as an error, by the roadmap validators and the change
\* validators alike.
C22_PlaceholderIsWarning ==
  /\ LintValidated =>
       \A i \in DOMAIN results.errors : results.errors[i].msg \notin PlaceholderMessages
  /\ LegacyValidated =>
       \A i \in DOMAIN returned.errors : returned.errors[i].msg \notin PlaceholderMessages
  /\ ChangeValidated =>
       \A i \in DOMAIN ChangeErrors : ChangeErrors[i].msg \notin PlaceholderMessages

\* C23: a declared id outside the canonical pattern of its kind (ROAD-<digits>,
\* ADR-<digits>, CHANGE-<digits>) is reported as an 'Invalid id format' error
\* by the validator that processes the record.
C23_IdFormatIsError ==
  /\ (LintValidated /\ Truthy(roadFm.id) /\ ~RoadIdMatches(roadFm.id)) =>
       HasError(results.errors, "Invalid id format")
  /\ (LegacyValidated /\ Truthy(roadFm.id) /\ ~RoadIdMatches(roadFm.id)) =>
       HasError(returned.errors, "Invalid id format")
  /\ (AdrValidated /\ Truthy(adrFile.id) /\ ~AdrIdMatches(adrFile.id)) =>
       HasError(AdrRunErrors, "Invalid id format")
  /\ (ChangeValidated /\ Truthy(changeFm.id) /\ ~ChangeIdMatches(changeFm.id)) =>
       HasError(ChangeErrors, "Invalid id format")

(***************************************************************************)
(* Front-matter extraction: extractFrontMatter of governance-linter.js and *)
(* parseFrontmatter of validate-changes.js, on a change file               *)
(***************************************************************************)
FullText == "<the whole text>"

TextAfterBlock == "<the text after the block>"

\* extractFrontMatter(content): null when the text does not start with a
\* block between --- lines, {error} when the block is not YAML, else the
\* record; the body is not returned.
extractFrontMatter(file) ==
  IF file.kind = "none" THEN [returned |-> "null"]
  ELSE IF file.kind = "yamlerror" THEN [returned |-> "error"]
  ELSE [returned |-> "record", data |-> file]

\* parseFrontmatter(content): { data: {}, content } when the text does not
\* start with a block between --- lines, else the record and the rest.
parseFrontmatter(file) ==
  IF file.kind = "none" THEN [data |-> EmptyChange, content |-> FullText]
  ELSE [data |-> file, content |-> TextAfterBlock]

\* What the command that ran got from its front-matter extraction.
Extracted ==
  IF cmd = "lintChangeFiles" THEN extractFrontMatter(changeFm)
  ELSE parseFrontmatter(changeFm)

\* A change command read the change file, which has no front-matter block.
ReadWithoutFrontMatter ==
  /\ pc = "done" /\ changeFm.kind = "none"
  /\ \/ cmd = "lintChangeFiles" /\ results.total = 1
     \/ cmd = "validateChange" /\ counts.total = 1

\* C24: for a text without a front-matter block the extraction gives an empty
\* record and the whole text as body, and the run reports no error for the
\* absence of front matter.
C24_NoFrontMatterIsEmptyRecord ==
  ReadWithoutFrontMatter =>
    /\ Extracted = [data |-> EmptyChange, content |-> FullText]
    /\ ~HasError(ChangeErrors, "No front matter found")

(***************************************************************************)
(* main of governance-linter.js: which validators a command line runs.     *)
(* The docs tree holds the well-formed base files.  The capability,        *)
(* user-story and persona validators are not modelled beyond their being   *)
(* called: what they add to passed and total is left out.                  *)
(***************************************************************************)
\* The arguments main tests, with one id of each kind.
Arguments ==
  {"--ci", "--all-roads", "--changes", "--adrs", "--capabilities",
   "--user-stories", "--personas", "--format=json",
   "ROAD-001", "CAP-001", "US-001", "PER-001"}

\* args.find(arg => arg.startsWith(prefix)) found an argument
HasTarget(a, id) == id \in a

\* The chain of branches of main, second generation: the first condition
\* that holds decides alone; "usage" is the final else.
Dispatch(a) ==
  IF HasTarget(a, "ROAD-001") THEN <<"lintRoadItem">>
  ELSE IF HasTarget(a, "CAP-001") THEN <<"lintCapabilities">>
  ELSE IF HasTarget(a, "US-001") THEN <<"lintUserStories">>
  ELSE IF HasTarget(a, "PER-001") THEN <<"lintPersonas">>
  ELSE IF "--all-roads" \in a THEN <<"lintAllRoads">>
  ELSE IF "--capabilities" \in a THEN <<"lintCapabilities">>
  ELSE IF "--user-stories" \in a THEN <<"lintUserStories">>
  ELSE IF "--personas" \in a THEN <<"lintPersonas", "generatePersonaIndex">>
  ELSE IF "--changes" \in a THEN <<"lintChangeFiles">>
  ELSE IF "--adrs" \in a THEN <<"lintAdrs">>
  ELSE IF "--ci" \in a
  THEN <<"lintAllRoads", "lintCapabilities", "lintUserStories", "lintPersonas",
         "lintChangeFiles", "lintAdrs">>
  ELSE <<"usage">>

\* What one validator adds to the accumulator on the base tree.
ValidatorResults(name) ==
  IF name = "lintRoadItem" THEN lintRoadItem(BaseRoad.id, BaseRoad).results
  ELSE IF name = "lintAllRoads" THEN lintAllRoads(EmptyResults, <<BaseRoad>>).results
  ELSE IF name = "lintChangeFiles" THEN lintChangeFiles(BaseChange)
  ELSE IF name = "lintAdrs" THEN lintAdrs(BaseAdr, FALSE).results
  ELSE EmptyResults

RECURSIVE RunValidators(_, _)
RunValidators(names, acc) ==
  IF names = <<>> THEN acc
  ELSE RunValidators(Tail(names), Merge(acc, ValidatorResults(Head(names))))

\* governance-linter.js <arguments>, second generation
Main ==
  /\ pc = "idle"
  /\ \E a \in SUBSET Arguments :
       LET called == Dispatch(a)
           acc == RunValidators(called, EmptyResults)
       IN /\ args' = a
          /\ ran' = called
          /\ results' = acc
          /\ exitCode' = IF called = <<"usage">> THEN "1" ELSE ExitCodeOf(acc, FALSE)
  /\ cmd' = "main"
  /\ pc' = "done"
  /\ UNCHANGED <<target, roadFm, prevState, returned, counts, status, history,
                 runnerVars, parser, bddUpdate, changeVars, batchVars, adrVars,
                 bddVars>>

\* main of the first generation: --all-roads and --adrs each add their
\* validator, --ci adds both.
LegacyDispatch(a) ==
  (IF "--all-roads" \in a \/ "--ci" \in a THEN <<"validateAllRoads">> ELSE <<>>)
  \o (IF "--adrs" \in a \/ "--ci" \in a THEN <<"validateAllAdrs">> ELSE <<>>)

LegacyTotals(called) ==
  LET roadResults == IF Includes(called, "validateAllRoads")
                     THEN validateAllRoads(TRUE, <<BaseRoad>>) ELSE NoCounts
      adrResults == IF Includes(called, "validateAllAdrs")
                    THEN validateAllAdrs(BaseAdr) ELSE NoCounts
  IN [total |-> roadResults.total + adrResults.total,
      passed |-> roadResults.passed + adrResults.passed,
      failed |-> roadResults.failed + adrResults.failed]

\* governance-linter.js <arguments>, first generation
LegacyMain ==
  /\ pc = "idle"
  /\ \E a \in SUBSET {"--ci", "--all-roads", "--adrs", "--changes"} :
       LET called == LegacyDispatch(a) IN
       /\ args' = a
       /\ ran' = called
       /\ counts' = LegacyTotals(called)
       /\ exitCode' = LegacyExitCode(LegacyTotals(called))
  /\ cmd' = "main (first generation)"
  /\ pc' = "done"
  /\ UNCHANGED <<target, roadFm, prevState, returned, results, status, history,
                 runnerVars, parser, bddUpdate, changeVars, batchVars, adrVars,
                 bddVars>>

NextMain == Main \/ LegacyMain \/ NewRun

SpecMain == Init /\ [][NextMain]_vars

\* The validators of each kind of record.
ValidatorsOf(kind) ==
  IF kind = "roads" THEN {"lintAllRoads", "validateAllRoads"}
  ELSE IF kind = "adrs" THEN {"lintAdrs", "validateAllAdrs"}
  ELSE IF kind = "changes" THEN {"lintChangeFiles"}
  ELSE {"validateNfrFrontMatter"}

\* C25: a run started with --ci, whatever the other arguments, calls a
\* validator of every kind: roadmap items, ADRs, change entries and NFRs.
C25_CiRunsEveryValidator ==
  (pc = "done" /\ cmd \in {"main", "main (first generation)"} /\ "--ci" \in args) =>
    \A kind \in {"roads", "adrs", "changes", "nfrs"} :
      \E i \in DOMAIN ran : ran[i] \in ValidatorsOf(kind)

(***************************************************************************)
(* validate-docs.js, the documentation validation runner: runScript, main  *)
(***************************************************************************)
\* One step of the runner: the script file and the arguments it is given.
Step(script, arguments) == [script |-> script, arguments |-> arguments]

\* The steps main goes through for the given command line, in order.
ConfiguredSteps(a) ==
  <<Step("governance-linter.js", "--all-roads"),
    Step("governance-linter.js", "--adrs"),
    Step("validate-changes.js", "")>>
  \o (IF "--skip-optional" \notin a
      THEN <<Step("validate-bdd-tags.js", IF "--ci" \in a THEN "--strict" ELSE "")>>
      ELSE <<>>)
  \o (IF "--ci" \in a THEN <<Step("governance-linter.js", "--ci")>> ELSE <<>>)

\* runScript(scriptPath, args, description): a missing file is skipped;
\* execSync raises when the process ends with a code other than 0.
runScript_MissingFails(exists, code) ==
  IF ~exists THEN [success |-> FALSE, skipped |-> TRUE]
  ELSE IF code = "0" THEN [success |-> TRUE, skipped |-> FALSE]
  ELSE [success |-> FALSE, skipped |-> FALSE]

runScript(exists, code) ==
  IF ~exists THEN [success |-> TRUE, skipped |-> TRUE]
  ELSE IF code = "0" THEN [success |-> TRUE, skipped |-> FALSE]
  ELSE [success |-> FALSE, skipped |-> FALSE]

\* The results array main builds: one runScript after the other.
RunnerResults(a, exists, codes) ==
  LET steps == ConfiguredSteps(a) IN
  [i \in 1..Len(steps) |-> runScript(exists[steps[i].script], codes[i])]

\* results.filter(r => !r.success).length
FailedChecks(rs) == Len(SelectSeq(rs, LAMBDA r : ~r.success))

ExitCodes == {"0", "1", "3"}

\* validate-docs.js [--ci] [--skip-optional]
ValidateDocs ==
  /\ pc = "idle"
  /\ \E a \in SUBSET {"--ci", "--skip-optional"},
        exists \in [ScriptFiles -> BOOLEAN],
        codes \in [1..MaxSteps -> ExitCodes] :
       LET rs == RunnerResults(a, exists, codes) IN
       /\ args' = a
       /\ scriptExists' = exists
       /\ scriptExit' = codes
       /\ runChecks' = rs
       /\ exitCode' = IF FailedChecks(rs) > 0 THEN "1" ELSE "0"
  /\ cmd' = "validate-docs"
  /\ pc' = "done"
  /\ UNCHANGED <<target, roadFm, prevState, returned, results, counts, status,
                 history, ran, parser, bddUpdate, changeVars, batchVars, adrVars,
                 bddVars>>

NextRunner == ValidateDocs \/ NewRun

SpecRunner == Init /\ [][NextRunner]_vars

RunnerDone == pc = "done" /\ cmd = "validate-docs"

\* The step's script file exists and its process ended with a non-zero code.
StepFailed(i) ==
  /\ scriptExists[ConfiguredSteps(args)[i].script]
  /\ scriptExit[i] # "0"

\* C26: the runner goes through every configured step, whatever the earlier
\* steps did: a missing script is recorded as skipped, a script that ran is
\* recorded with its outcome; the runner exits 1 exactly when a script that
\* ran failed, else 0.
C26_RunnerRunsAll ==
  RunnerDone =>
    /\ Len(runChecks) = Len(ConfiguredSteps(args))
    /\ \A i \in DOMAIN runChecks :
         /\ runChecks[i].skipped = ~scriptExists[ConfiguredSteps(args)[i].script]
         /\ ~runChecks[i].skipped => (runChecks[i].success = (scriptExit[i] = "0"))
    /\ exitCode = IF \E i \in DOMAIN runChecks : StepFailed(i) THEN "1" ELSE "0"

\* The first step failed, a later script is missing, another one passed, and
\* the runner exited 1.
C26_Witness ==
  /\ RunnerDone
  /\ StepFailed(1)
  /\ runChecks[3].skipped
  /\ \E i \in 4..Len(runChecks) : runChecks[i].success /\ ~runChecks[i].skipped
  /\ exitCode = "1"

(***************************************************************************)
(* parseFrontmatter of validate-changes.js: the loop over the lines of the *)
(* block and its stack of frames.  Blank lines and comments are skipped by *)
(* the loop and by lookAheadForArray alike and are left out.               *)
(***************************************************************************)
MaxLines == 4

\* The shapes of a line: "key:", "key: value", "- value", "- key: value" and
\* "- key:", at an indentation of 0, 2 or 4 spaces.
LineKinds == {"key:", "key: value", "- value", "- key: value", "- key:"}

Indents == {0, 2, 4}

Lines == [kind : LineKinds, indent : Indents]

\* trimmed.startsWith('- ')
IsItemLine(l) == l.kind \in {"- value", "- key: value", "- key:"}

Frame(type, indent) == [type |-> type, indent |-> indent]

\* popUntilIndent(indent)
RECURSIVE popUntilIndent(_, _)
popUntilIndent(stack, indent) ==
  IF Len(stack) > 1 /\ stack[Len(stack)].indent >= indent
  THEN popUntilIndent(SubSeq(stack, 1, Len(stack) - 1), indent)
  ELSE stack

\* lookAheadForArray(startIdx, baseIndent), the next line being `following`
lookAheadForArray(following, baseIndent) ==
  /\ following.kind # "end"
  /\ following.indent > baseIndent
  /\ IsItemLine(following)
  /\ following.indent = baseIndent + 2

\* while (stack.length > 1 && current.type !== 'array') stack.pop(): current
\* is read once, before the loop, so a top frame that is no array pops
\* every frame down to the first one.
PopToArray(stack) ==
  IF stack[Len(stack)].type # "array" THEN SubSeq(stack, 1, 1) ELSE stack

\* The branch for an item line: arr.push raises when the frame reached is
\* not an array; "- key:" pushes a frame for the object it starts.
ItemLineStep(stack, l) ==
  LET popped == PopToArray(stack)
      arr == popped[Len(popped)]
  IN IF arr.type # "array" THEN [stack |-> popped, threw |-> TRUE]
     ELSE IF l.kind = "- key:"
     THEN [stack |-> Append(popped, Frame("object", l.indent)), threw |-> FALSE]
     ELSE [stack |-> popped, threw |-> FALSE]

\* The branch for a key line.
KeyLineStep(stack, l, following) ==
  LET popped == popUntilIndent(stack, l.indent) IN
  IF l.kind = "key: value" THEN [stack |-> popped, threw |-> FALSE]
  ELSE IF lookAheadForArray(following, l.indent)
  THEN [stack |-> Append(popped, Frame("array", l.indent)), threw |-> FALSE]
  ELSE [stack |-> Append(popped, Frame("object", l.indent)), threw |-> FALSE]

\* The lines that may follow line number n of a block of at most MaxLines.
Following(n) == IF n < MaxLines THEN Lines \cup {EndOfBlock} ELSE {EndOfBlock}

\* parseFrontmatter is called on a block: its first two lines.
ParseStart ==
  /\ pc = "idle"
  /\ \E first \in Lines, second \in Following(1) :
       parser' = [ParserAtStart EXCEPT !.line = first, !.next = second]
  /\ pc' = "parsing"
  /\ cmd' = "parseFrontmatter"
  /\ UNCHANGED <<target, roadFm, prevState, returned, results, counts, exitCode,
                 status, history, mainVars, runnerVars, bddUpdate, changeVars, batchVars,
                 adrVars, bddVars>>

\* The state of the parser after the step `step` on the line at lineIdx.
AfterLine(step) ==
  /\ \E third \in (IF parser.next = EndOfBlock THEN {EndOfBlock}
                   ELSE Following(parser.lineIdx + 2)) :
       parser' = [stack |-> step.stack, line |-> IF step.threw THEN EndOfBlock ELSE parser.next,
                  next |-> IF step.threw THEN EndOfBlock ELSE third,
                  lineIdx |-> parser.lineIdx + 1, before |-> parser.stack,
                  processed |-> parser.line, threw |-> step.threw]
  /\ UNCHANGED <<pc, cmd, target, roadFm, prevState, returned, results, counts,
                 exitCode, status, history, mainVars, runnerVars, bddUpdate, changeVars,
                 batchVars, adrVars, bddVars>>

\* One turn of the loop on an item line.
ParseItemLine ==
  /\ pc = "parsing" /\ ~parser.threw
  /\ IsItemLine(parser.line)
  /\ AfterLine(ItemLineStep(parser.stack, parser.line))

\* One turn of the loop on a key line.
ParseKeyLine ==
  /\ pc = "parsing" /\ ~parser.threw
  /\ parser.line.kind \in {"key:", "key: value"}
  /\ AfterLine(KeyLineStep(parser.stack, parser.line, parser.next))

\* The loop ends at the end of the block, or arr.push raised and
\* validateChange catches it as a parse error.
ParseEnd ==
  /\ pc = "parsing"
  /\ parser.line = EndOfBlock
  /\ pc' = "done"
  /\ returned' = [NothingReturned EXCEPT
                    !.errors = IF parser.threw THEN <<Err("Parse error", <<>>)>>
                               ELSE <<>>]
  /\ UNCHANGED <<cmd, target, roadFm, prevState, results, counts, exitCode,
                 status, history, scriptVars, changeVars, batchVars, adrVars,
                 bddVars>>

NextParser == ParseStart \/ ParseItemLine \/ ParseKeyLine \/ ParseEnd \/ NewRun

SpecParser == Init /\ [][NextParser]_vars

\* The last turn of the loop was on an item line, with an array frame on the
\* stack.
ItemLineInsideArray ==
  /\ cmd = "parseFrontmatter"
  /\ IsItemLine(parser.processed)
  /\ \E i \in DOMAIN parser.before : parser.before[i].type = "array"

\* The stack up to its topmost array frame.
UpToNearestArray(stack) ==
  LET arrays == { i \in 1..Len(stack) : stack[i].type = "array" } IN
  SubSeq(stack, 1, CHOOSE i \in arrays : \A j \in arrays : j <= i)

\* The stack the item line left, without the frame "- key:" pushed.
AfterPop ==
  IF parser.processed.kind = "- key:" /\ ~parser.threw
  THEN SubSeq(parser.stack, 1, Len(parser.stack) - 1)
  ELSE parser.stack

\* C27: an item line pops the frames above the nearest enclosing array frame
\* and appends the item to that array: the array frame stays and the item is
\* never pushed to a container that is no array.
C27_ItemGoesToNearestArray ==
  ItemLineInsideArray =>
    /\ AfterPop = UpToNearestArray(parser.before)
    /\ ~parser.threw

(***************************************************************************)
(* The passed list of the governance linter's results                      *)
(***************************************************************************)
\* A command of the second-generation linter over one file ran to the point
\* where main prints the results.
LinterPrinted ==
  /\ pc = "done"
  /\ cmd \in {"lintRoadItem", "lintChangeFiles", "lintAdrs"}
  /\ exitCode \in {"0", "1"}

\* C28: a record is in the passed list only if no error was recorded for it:
\* no record is both in passed and in errors, and the number of passed
\* entries (summary.passed) is the number of records without errors.
C28_PassedMeansNoError ==
  LinterPrinted =>
    /\ \A i \in DOMAIN results.passed : \A j \in DOMAIN results.errors :
         results.passed[i].id # results.errors[j].id
    /\ Len(results.passed) = IF results.total = 1 /\ results.errors = <<>> THEN 1 ELSE 0

(***************************************************************************)
(* A batch run over roads/ and the files it validates                      *)
(***************************************************************************)
\* The accumulator after validating each of the files once, on its own.
RECURSIVE EachOnce(_, _, _)
EachOnce(files, i, acc) ==
  IF i > Len(files) THEN acc
  ELSE EachOnce(files, i + 1,
                Merge(acc, lintRoadItem(files[i].id, files[i]).results))

\* C29: an --all-roads run validates every file of roads/ other than the
\* template and the index exactly once: results.total is the number of
\* these files and, when each of them is a roadmap record, the results are
\* those of validating each file once, also when two files declare one id.
C29_EachFileOnce ==
  BatchDone =>
    /\ results.total = Cardinality({i \in 1..Len(roadFiles) : roadFiles[i].kind # "template"})
    /\ (\A i \in 1..Len(roadFiles) : Lintable(roadFiles[i]))
         => results = EachOnce(roadFiles, 1, EmptyResults)


(***************************************************************************)
(* update-bdd-results.js: the Cucumber report is grouped by roadmap item   *)
(* and the totals are written into the front matter of the item's CHANGE   *)
(* file.  A step is encoded by the status of its result, Undefined for a   *)
(* step without a result; an element by its type and its steps; a feature  *)
(* by the roadmap id its tags name ("<null>" without a @ROAD- tag) and its *)
(* elements.                                                               *)
(***************************************************************************)
MaxScenarios == 2

TaggedRoads == {"ROAD-001", "ROAD-002"}

StepResults == {"passed", "failed", "skipped", Undefined}

StepLists == {<<>>} \cup {<<a>> : a \in StepResults}
               \cup {<<a, b>> : a \in StepResults, b \in StepResults}

Elements ==
  [type : {"scenario"}, steps : StepLists]
    \cup {[type |-> "background", steps |-> <<"passed">>]}

ElementLists(n) == UNION {[1..k -> Elements] : k \in 0..n}

CucumberFeatures(n) == [roadId : TaggedRoads \cup {"<null>"}, elements : ElementLists(n)]

\* report.json: one feature with up to MaxScenarios elements, or two
\* features with at most one element each; the empty array.
Reports ==
  {<<>>} \cup {<<f>> : f \in CucumberFeatures(MaxScenarios)}
         \cup {<<f, g>> : f \in CucumberFeatures(1), g \in CucumberFeatures(1)}

\* The status processTestResults gives a scenario from its steps.
scenarioStatus(steps) ==
  LET hasFailed == \E i \in 1..Len(steps) : steps[i] = "failed"
      allPassed == \A i \in 1..Len(steps) : steps[i] = "passed"
  IN IF hasFailed THEN "failed"
     ELSE IF Len(steps) > 0
          THEN IF allPassed THEN "passed" ELSE "pending"
          ELSE "pending"

IsScenario(element) == element.type = "scenario"

\* The entry processTestResults pushes for one feature.
featureResult(f) ==
  LET counted   == SelectSeq(f.elements, IsScenario)
      scenarios == [j \in 1..Len(counted) |-> scenarioStatus(counted[j].steps)]
      Count(s)  == Cardinality({j \in 1..Len(scenarios) : scenarios[j] = s})
  IN [scenarios |-> scenarios,
      summary   |-> [total   |-> Len(scenarios),
                     passed  |-> Count("passed"),
                     failed  |-> Count("failed"),
                     pending |-> Count("pending")]]

RECURSIVE groupByRoad(_, _, _)
groupByRoad(features, i, acc) ==
  IF i > Len(features) THEN acc
  ELSE LET roadId == features[i].roadId
       IN IF roadId = "<null>" THEN groupByRoad(features, i + 1, acc)
          ELSE groupByRoad(features, i + 1,
                 [acc EXCEPT ![roadId] = Append(@, featureResult(features[i]))])

\* resultsByRoad: an id the map does not hold has the empty list here.
processTestResults(features) ==
  groupByRoad(features, 1, [r \in TaggedRoads |-> <<>>])

RECURSIVE SumOf(_, _, _)
SumOf(bddResults, field, i) ==
  IF i > Len(bddResults) THEN 0
  ELSE bddResults[i].summary[field] + SumOf(bddResults, field, i + 1)

\* Math.round((passed / total) * 100) + '%'
Coverage(passed, total) ==
  IF total > 0 THEN ToString((200 * passed + total) \div (2 * total)) \o "%"
  ELSE "N/A"

NotWritten == [updated |-> FALSE]

\* The front matter updateChangeFiles writes for one roadmap item.
writtenFrontMatter(bddResults) ==
  LET totalScenarios  == SumOf(bddResults, "total", 1)
      passedScenarios == SumOf(bddResults, "passed", 1)
      failedScenarios == SumOf(bddResults, "failed", 1)
  IN [updated |-> TRUE,
      test_results |->
        [bdd |-> [total  |-> totalScenarios,
                  passed |-> passedScenarios,
                  failed |-> failedScenarios,
                  status |-> IF failedScenarios > 0 THEN "fail" ELSE "pass"]],
      compliance |->
        [bdd_check |-> [status    |-> IF failedScenarios > 0 THEN "fail" ELSE "pass",
                        scenarios |-> totalScenarios,
                        passed    |-> passedScenarios,
                        coverage  |-> Coverage(passedScenarios, totalScenarios)]]]

\* changeRoads: the road_id values the files changes/CHANGE-*.md declare.
updateChangeFiles(resultsByRoad, targetRoadId, changeRoads) ==
  [roadId \in TaggedRoads |->
     IF \/ Len(resultsByRoad[roadId]) = 0
        \/ targetRoadId # "<null>" /\ roadId # targetRoadId
        \/ roadId \notin changeRoads
     THEN NotWritten
     ELSE writtenFrontMatter(resultsByRoad[roadId])]

ReportFiles == {"missing", "invalid", "array"}

\* main of update-bdd-results.js with the files it finds.
BddUpdateOutcome(reportFile, report, targetRoadId, changesDir, changeRoads) ==
  LET resultsByRoad == processTestResults(report)
      nothing       == [r \in TaggedRoads |-> NotWritten]
      found         == \E r \in TaggedRoads : Len(resultsByRoad[r]) > 0
      stops         == reportFile = "missing" \/ Len(report) = 0 \/ ~found
  IN /\ bddUpdate' =
          [report        |-> report,
           targetRoadId  |-> targetRoadId,
           changeRoads   |-> changeRoads,
           resultsByRoad |-> IF reportFile = "array" /\ Len(report) > 0
                             THEN resultsByRoad ELSE [r \in TaggedRoads |-> <<>>],
           written       |-> IF reportFile # "array" \/ stops \/ ~changesDir
                             THEN nothing
                             ELSE updateChangeFiles(resultsByRoad, targetRoadId,
                                                    changeRoads)]
     /\ exitCode' = IF reportFile = "invalid" THEN "1"
                    ELSE IF stops THEN "0"
                    ELSE IF ~changesDir THEN "1" ELSE "0"

UpdateBddResults ==
  /\ pc = "idle"
  /\ \E reportFile \in ReportFiles, targetRoadId \in {"<null>", "ROAD-001"} :
       \/ /\ reportFile = "array"
          /\ \E report \in Reports :
               \/ \E changeRoads \in {{}, {"ROAD-001"}, TaggedRoads} :
                    BddUpdateOutcome(reportFile, report, targetRoadId, TRUE, changeRoads)
               \/ BddUpdateOutcome(reportFile, report, targetRoadId, FALSE, {})
       \/ /\ reportFile # "array"
          /\ BddUpdateOutcome(reportFile, <<>>, targetRoadId, TRUE, {"ROAD-001"})
  /\ cmd' = "update-bdd-results"
  /\ pc' = "done"
  /\ UNCHANGED <<target, roadFm, prevState, returned, results, counts, status,
                 history, mainVars, runnerVars, parser, changeVars, batchVars,
                 adrVars, bddVars>>

NextBddUpdate == UpdateBddResults \/ NewRun

SpecBddUpdate == Init /\ [][NextBddUpdate]_vars

BddUpdateDone == pc = "done" /\ cmd = "update-bdd-results"

\* Every scenario counted for the roadmap item passed.
EveryScenarioPassed(roadId) ==
  \A i \in 1..Len(bddUpdate.resultsByRoad[roadId]) :
    \A j \in 1..Len(bddUpdate.resultsByRoad[roadId][i].scenarios) :
      bddUpdate.resultsByRoad[roadId][i].scenarios[j] = "passed"

\* C30: update-bdd-results writes status pass for a roadmap item's BDD check
\* (compliance.bdd_check.status and test_results.bdd.status) only when every
\* scenario counted for the item passed: with a failed or a pending scenario
\* the written status is not pass.
C30_PassOnlyWhenAllPassed ==
  BddUpdateDone =>
    \A roadId \in TaggedRoads :
      bddUpdate.written[roadId].updated =>
        /\ bddUpdate.written[roadId].compliance.bdd_check.status = "pass"
             => EveryScenarioPassed(roadId)
        /\ bddUpdate.written[roadId].test_results.bdd.status = "pass"
             => EveryScenarioPassed(roadId)

====
